---- MODULE Spec2Model ----
(***************************************************************************)
(* Cloud Cost Sentinel: the four resource scanners (EC2, EBS, RDS, S3),    *)
(* their idle classification rules, their handling of provider failures    *)
(* and the savings aggregation, modelled from src/src/scanners and         *)
(* src/src/utils.                                                          *)
(*                                                                         *)
(* Units.  CPU percentages and connection counts are integers in           *)
(* hundredths (5.0 % is 500, 5.01 % is 501).  Prices are integers in       *)
(* 1/10000 USD (0.0104 USD is 104); monthly costs are integers in cents    *)
(* (what round(x, 2) returns).  An average is kept as the exact fraction   *)
(* num/den so that "<=" on averages is decided as on the quotient.         *)
(*                                                                         *)
(* Provider failures.  Every call a scanner makes to the provider          *)
(* (listing, metrics, price list) is a "site" <<api, resource, pass>>.     *)
(* The provider state aws_faults names the sites that fail at present      *)
(* (at most MaxFaults of them) and the exception each raises; the          *)
(* provider may recover between two operations.  botocore's ClientError    *)
(* (throttling, access denied) and BotoCoreError (read/connect timeout,    *)
(* endpoint connection failure) are unrelated exception classes.           *)
(***************************************************************************)
EXTENDS Integers, Sequences, FiniteSets, TLC

VARIABLES
    aws_faults,       \* provider: the calls that fail at present, and how
    clock,            \* the wall clock, in hours
    aws_ec2,          \* provider: running instances and their CloudWatch CPU series
    ec2_scanner,      \* EC2Scanner object: region, days, idle_threshold, idle_instances
    ec2_price_cache,  \* AWSEC2PricingClient._price_cache (process-wide singleton)
    ec2_ret,          \* outcome of the last EC2Scanner operation
    aws_rds,          \* provider: database instances with their CloudWatch series
    aws_snapshots,    \* provider: manual database snapshots
    rds_scanner,      \* RDSScanner object
    rds_price_cache,  \* AWSRDSPricingClient._price_cache
    rds_ret,          \* outcome of the last RDSScanner operation
    aws_ebs,          \* provider: volumes with their CloudWatch series
    ebs_scanner,      \* EBSScanner object
    ebs_price_cache,  \* AWSPricingClient._price_cache
    ebs_ret,          \* outcome of the last EBSScanner operation
    aws_s3,           \* provider: buckets with their CloudWatch series
    s3_scanner,       \* S3Scanner object
    s3_ret,           \* outcome of the last S3Scanner operation
    pricing_ret,      \* outcome of the last direct call of a pricing function
    threads           \* the threads that run concurrently: position and local variables

ec2_vars == <<aws_ec2, ec2_scanner, ec2_price_cache, ec2_ret>>
rds_vars == <<aws_rds, aws_snapshots, rds_scanner, rds_price_cache, rds_ret>>
ebs_vars == <<aws_ebs, ebs_scanner, ebs_price_cache, ebs_ret>>
s3_vars == <<aws_s3, s3_scanner, s3_ret>>

vars == <<aws_faults, clock, ec2_vars, rds_vars, ebs_vars, s3_vars, pricing_ret, threads>>

----------------------------------------------------------------------------
(* Bounds of the model *)

\* resources returned by one listing call
MaxResources == 2

\* provider calls that fail at the same time
MaxFaults == 1

\* hours of wall-clock time the model follows
MaxClock == 2

\* the longest datapoint series handed to a reducer on its own
MaxSamples == 3

\* threads of one process that call the same object concurrently
MaxThreads == 2

----------------------------------------------------------------------------
(* Generic helpers *)

RECURSIVE SumSeq(_)
SumSeq(s) == IF s = <<>> THEN 0 ELSE Head(s) + SumSeq(Tail(s))

Range(s) == {s[i] : i \in 1..Len(s)}

\* Python's sum(x.get(f, 0) for x in s): a finding without the field counts as 0
RECURSIVE SumField(_, _)
SumField(s, f) ==
    IF s = <<>> THEN 0
    ELSE (IF f \in DOMAIN Head(s) THEN Head(s)[f] ELSE 0) + SumField(Tail(s), f)

\* round() of the non-negative quotient n/d to an integer, ties to even
RoundHalfEven(n, d) ==
    LET q == n \div d
        r == n % d
    IN  IF 2 * r < d THEN q
        ELSE IF 2 * r > d THEN q + 1
        ELSE IF q % 2 = 0 THEN q ELSE q + 1

\* Python None (the NO_DATA reduction, a price that was not found) and a value
None == [none |-> TRUE]
Some(x) == [none |-> FALSE, val |-> x]

\* a process with a single thread of control
NoThreads == << >>

\* the two exception families of botocore, and the price list's "no product"
ClientError == "ClientError"
BotoCoreError == "BotoCoreError"
NotFound == "NotFound"

ErrorKinds == {ClientError, BotoCoreError}

\* an exception of neither family raised while a price list response is read (a
\* malformed product document), and one raised when the pricing client is built
UnexpectedError == "Exception"
ConstructionError == "NoClient"

\* the exception raised at a provider call site under a fault plan, or "ok"
FaultAt(faults, site) ==
    IF \E f \in faults : f.site = site
    THEN (CHOOSE f \in faults : f.site = site).err
    ELSE "ok"

\* fault plans: at most n faults drawn from `all`, at most one per site
RECURSIVE FaultPlansUpTo(_, _)
FaultPlansUpTo(all, n) ==
    IF n = 0 THEN {{}}
    ELSE LET smaller == FaultPlansUpTo(all, n - 1)
         IN  smaller \cup
             {p \cup {f} : <<p, f>> \in
                 {<<p, f>> \in smaller \X all : \A g \in p : g.site # f.site}}

\* every fault the given sites can suffer: a provider error anywhere, and "no
\* product found" at a price list call
FaultsOf(sites, pricing_sites) ==
    {[site |-> s, err |-> e] : s \in sites \cup pricing_sites, e \in ErrorKinds}
    \cup {[site |-> s, err |-> NotFound] : s \in pricing_sites}

FaultPlans(sites, pricing_sites) ==
    FaultPlansUpTo(FaultsOf(sites, pricing_sites), MaxFaults)

----------------------------------------------------------------------------
(* Pricing: src/src/utils/aws_ec2_pricing.py *)

HOURS_PER_MONTH == 730

\* the instance types of the model: one in the default table, one absent from it
InstanceTypes == {"t3.micro", "z9.large"}

\* DEFAULT_EC2_PRICES restricted to the keys the model uses, in 1/10000 USD
DEFAULT_EC2_PRICES == [t \in {"t3.micro", "t3.medium"} |->
                          IF t = "t3.micro" THEN 104 ELSE 416]

\* the pricePerUnit "USD" strings of the model and what float() makes of them, in
\* 1/10000 USD
float_of_usd(usd_price) ==
    CASE usd_price = "0.0110000000" -> 110
      [] usd_price = "0.9000000000" -> 900
      [] usd_price = "0.0000000000" -> 0

\* the "USD" string of the product the Price List API answers for an instance type
\* when the call succeeds; "z0.free" stands for a type whose product is priced at
\* zero
PriceListUSD(instance_type) ==
    CASE instance_type = "t3.micro" -> "0.0110000000"
      [] instance_type = "z0.free" -> "0.0000000000"
      [] OTHER -> "0.9000000000"

\* _extract_price_from_product: `if usd_price: return float(usd_price)`; the test is
\* the truth value of the string, so every non-empty string is converted
extract_price_from_product(usd_price) ==
    IF usd_price # "" THEN Some(float_of_usd(usd_price)) ELSE None

\* what the Price List API answers for an instance type when the call succeeds
\* (the first product of the response that carries a USD price)
PriceListEC2(instance_type) ==
    extract_price_from_product(PriceListUSD(instance_type)).val

EC2PricingSite(instance_id) == <<"get_products", instance_id, 1>>

\* AWSEC2PricingClient.get_ec2_price_per_hour: [price, cache]; price None when the
\* lookup raised a provider error or found no product; only a found price is cached;
\* an exception that is neither ClientError nor BotoCoreError leaves the method
client_get_ec2_price_per_hour(cache, instance_type, region, site, faults) ==
    LET cache_key == <<"ec2", instance_type, region, "Linux">>
        f == FaultAt(faults, site)
    IN  IF cache_key \in DOMAIN cache
        THEN [price |-> Some(cache[cache_key]), cache |-> cache, called |-> FALSE,
              raised |-> FALSE]
        ELSE IF f = "ok"
        THEN [price |-> Some(PriceListEC2(instance_type)),
              cache |-> cache @@ (cache_key :> PriceListEC2(instance_type)),
              called |-> TRUE, raised |-> FALSE]
        ELSE [price |-> None, cache |-> cache, called |-> TRUE,
              raised |-> f = UnexpectedError]

\* a resolver whose last resort is the cheapest table entry (not the source's)
get_ec2_price_per_hour_falling_back_to_micro(cache, instance_type, region, use_api, site, faults) ==
    LET live == IF use_api /\ FaultAt(faults, site) # ConstructionError
                THEN client_get_ec2_price_per_hour(cache, instance_type, region, site, faults)
                ELSE [price |-> None, cache |-> cache, called |-> FALSE,
                      raised |-> use_api]
    IN  [price |-> IF ~live.price.none THEN live.price.val
                       ELSE DEFAULT_EC2_PRICES["t3.micro"],
         cache |-> live.cache, called |-> live.called, raised |-> FALSE]

\* module-level get_ec2_price_per_hour: live price, else default table, else
\* t3.medium; every exception of the live lookup is caught
get_ec2_price_per_hour(cache, instance_type, region, use_api, site, faults) ==
    LET live == IF use_api /\ FaultAt(faults, site) # ConstructionError
                THEN client_get_ec2_price_per_hour(cache, instance_type, region, site, faults)
                ELSE [price |-> None, cache |-> cache, called |-> FALSE,
                      raised |-> use_api]
    IN  [price |-> IF ~live.price.none THEN live.price.val
                       ELSE IF instance_type \in DOMAIN DEFAULT_EC2_PRICES
                       THEN DEFAULT_EC2_PRICES[instance_type]
                       ELSE DEFAULT_EC2_PRICES["t3.medium"],
         cache |-> live.cache, called |-> live.called, raised |-> FALSE]

\* round(hourly_price * HOURS_PER_MONTH, 2), in cents
calculate_ec2_monthly_cost(cache, instance_type, region, use_api, site, faults) ==
    LET hourly == get_ec2_price_per_hour(cache, instance_type, region, use_api, site, faults)
    IN  [cost |-> RoundHalfEven(hourly.price * HOURS_PER_MONTH, 100),
         cache |-> hourly.cache, called |-> hourly.called,
         raised |-> hourly.raised]

----------------------------------------------------------------------------
(* EC2Scanner: src/src/scanners/ec2_scanner.py *)

InstanceIds == <<"i-1", "i-2", "i-3">>

\* idle_threshold values a scanner is constructed with (5.0 is the default)
IdleThresholds == {500}

\* the running instances a provider may hold: <<instance type, CloudWatch
\* CPUUtilization "Average" series in hundredths of a percent>>: no data, a mean
\* exactly at 5.0, a mean just above it (5.005 and 5.01), a mean of 2.0
EC2Profiles ==
    {<<"t3.micro", <<>>>>,
     <<"t3.micro", <<499, 501>>>>,
     <<"z9.large", <<500, 501>>>>,
     <<"t3.micro", <<501>>>>,
     <<"z9.large", <<100, 300>>>>}

\* the provider's running instances: ids in listing order, any profile each
EC2Fleets == UNION {[1..n -> EC2Profiles] : n \in 0..MaxResources}

EC2ListSite == <<"describe_instances", "", 0>>
EC2MetricSite(instance_id) == <<"CPUUtilization", instance_id, 0>>

EC2Sites(fleet) ==
    {EC2ListSite} \cup {EC2MetricSite(InstanceIds[k]) : k \in 1..Len(fleet)}

EC2PricingSites(fleet) == {EC2PricingSite(InstanceIds[k]) : k \in 1..Len(fleet)}

\* get_running_ec2_instances: the listing, [] on ClientError; any other exception
\* of the paginator is not caught
get_running_ec2_instances(fleet, faults) ==
    LET f == FaultAt(faults, EC2ListSite)
    IN  IF f = "ok"
        THEN [raised |-> FALSE,
              value |-> [k \in 1..Len(fleet) |->
                            [instance_id |-> InstanceIds[k],
                             instance_type |-> fleet[k][1]]]]
        ELSE IF f = ClientError
        THEN [raised |-> FALSE, value |-> <<>>]
        ELSE [raised |-> TRUE, value |-> <<>>]

\* the CloudWatch datapoints the provider holds for an instance id
EC2Datapoints(fleet, instance_id) ==
    LET k == CHOOSE i \in 1..Len(fleet) : InstanceIds[i] = instance_id
    IN  fleet[k][2]

\* get_ec2_cpu_utilization: the datapoints, [] on ClientError; any other exception
\* of get_metric_statistics is not caught
get_ec2_cpu_utilization(fleet, instance_id, faults) ==
    LET f == FaultAt(faults, EC2MetricSite(instance_id))
    IN  IF f = "ok"
        THEN [raised |-> FALSE, value |-> EC2Datapoints(fleet, instance_id)]
        ELSE IF f = ClientError
        THEN [raised |-> FALSE, value |-> <<>>]
        ELSE [raised |-> TRUE, value |-> <<>>]

\* a reducer that answers 0 for an empty series (not the source's)
calculate_average_cpu_zero_for_empty(datapoints) ==
    IF datapoints = <<>> THEN [none |-> FALSE, num |-> 0, den |-> 1]
    ELSE [none |-> FALSE, num |-> SumSeq(datapoints), den |-> Len(datapoints)]

\* calculate_average_cpu: None for no datapoints, else sum / len as a fraction
calculate_average_cpu(datapoints) ==
    IF datapoints = <<>> THEN None
    ELSE [none |-> FALSE, num |-> SumSeq(datapoints), den |-> Len(datapoints)]

\* a strict comparison in place of the inclusive one
ec2_is_idle_strict(avg_cpu, idle_threshold) ==
    avg_cpu.num < idle_threshold * avg_cpu.den

\* is_idle = avg_cpu <= self.idle_threshold
ec2_is_idle(avg_cpu, idle_threshold) ==
    avg_cpu.num <= idle_threshold * avg_cpu.den

\* round(avg, 2) of a fraction of hundredths
Round2(avg) == RoundHalfEven(avg.num, avg.den)

\* the loop of analyze_ec2_instances over instances[k..], st the handler's state so
\* far: the idle list, the price cache, whether an exception escaped, the calls made
RECURSIVE ec2_analyze_loop(_, _, _, _, _, _, _)
ec2_analyze_loop(self, fleet, instances, k, use_api, faults, st) ==
    IF k > Len(instances) \/ st.raised THEN st
    ELSE
    LET instance == instances[k]
        cpu_data == get_ec2_cpu_utilization(fleet, instance.instance_id, faults)
        st1 == [st EXCEPT !.calls = Append(@, EC2MetricSite(instance.instance_id))]
    IN  IF cpu_data.raised THEN [st1 EXCEPT !.raised = TRUE]
        ELSE
        LET avg_cpu == calculate_average_cpu(cpu_data.value)
        IN  IF ~avg_cpu.none /\ ec2_is_idle(avg_cpu, self.idle_threshold)
            THEN LET mc == calculate_ec2_monthly_cost(
                               st1.cache, instance.instance_type, self.region, use_api,
                               EC2PricingSite(instance.instance_id), faults)
                     idle_instance ==
                         [instance_id |-> instance.instance_id,
                          instance_type |-> instance.instance_type,
                          avg_cpu_percent |-> Round2(avg_cpu),
                          estimated_monthly_cost |-> mc.cost,
                          analysis_period_days |-> self.days,
                          idle_threshold |-> self.idle_threshold]
                     st2 == [st1 EXCEPT
                                !.idle = Append(@, idle_instance),
                                !.cache = mc.cache,
                                !.calls = IF mc.called
                                          THEN Append(@, EC2PricingSite(instance.instance_id))
                                          ELSE @]
                 IN  ec2_analyze_loop(self, fleet, instances, k + 1, use_api, faults, st2)
            ELSE ec2_analyze_loop(self, fleet, instances, k + 1, use_api, faults, st1)

\* a scan that appends to the findings already held (not the source's)
ec2_analyze_appending(self, cache, fleet, use_api, faults) ==
    LET st0 == [idle |-> self.idle_instances, cache |-> cache, raised |-> FALSE,
                calls |-> <<EC2ListSite>>]
        listing == get_running_ec2_instances(fleet, faults)
    IN  IF listing.raised THEN [st0 EXCEPT !.raised = TRUE]
        ELSE ec2_analyze_loop(self, fleet, listing.value, 1, use_api, faults, st0)

\* EC2Scanner.analyze_ec2_instances as a function of the provider's answers
ec2_analyze(self, cache, fleet, use_api, faults) ==
    LET st0 == [idle |-> <<>>, cache |-> cache, raised |-> FALSE,
                calls |-> <<EC2ListSite>>]
        listing == get_running_ec2_instances(fleet, faults)
    IN  IF listing.raised THEN [st0 EXCEPT !.raised = TRUE]
        ELSE ec2_analyze_loop(self, fleet, listing.value, 1, use_api, faults, st0)

\* EC2Scanner.get_scan_summary
ec2_scan_summary(self, now) ==
    LET total_idle_cost == SumField(self.idle_instances, "estimated_monthly_cost")
    IN  [scanner |-> "EC2Scanner",
         region |-> self.region,
         analysis_period_days |-> self.days,
         idle_threshold_percent |-> self.idle_threshold,
         idle_instances_count |-> Len(self.idle_instances),
         idle_instances_monthly_cost |-> total_idle_cost,
         idle_instances |-> self.idle_instances,
         scan_timestamp |-> now]

----------------------------------------------------------------------------
(* Pricing: src/src/utils/aws_rds_pricing.py *)

\* the instance classes of the model: one in the default table, one absent from it
InstanceClasses == {"db.t4g.micro", "db.z9.large"}

\* DEFAULT_RDS_POSTGRES_PRICES restricted to the keys the model uses, in 1/10000 USD
DEFAULT_RDS_POSTGRES_PRICES == [c \in {"db.t4g.micro", "db.t4g.medium"} |->
                                   IF c = "db.t4g.micro" THEN 160 ELSE 650]

\* DEFAULT_RDS_STORAGE_PRICES, in 1/10000 USD per GB-month
DEFAULT_RDS_STORAGE_PRICES ==
    [t \in {"gp2", "gp3", "io1", "io2", "standard"} |->
        CASE t = "gp2" -> 1150 [] t = "gp3" -> 800 [] t = "io1" -> 1250
          [] t = "io2" -> 1250 [] OTHER -> 1000]

\* DEFAULT_SNAPSHOT_PRICE_PER_GB, in 1/10000 USD
DEFAULT_SNAPSHOT_PRICE_PER_GB == 950

\* what the Price List API answers for a class and deployment option when the call
\* succeeds; the Multi-AZ product is priced by the provider, not derived
PriceListRDS(db_instance_class, deployment_option) ==
    IF deployment_option = "Single-AZ"
    THEN (IF db_instance_class = "db.t4g.micro" THEN 170 ELSE 2000)
    ELSE (IF db_instance_class = "db.t4g.micro" THEN 350 ELSE 4100)

RDSPricingSite(db_instance_id) == <<"get_products", db_instance_id, 1>>

\* AWSRDSPricingClient.get_rds_price_per_hour
client_get_rds_price_per_hour(cache, db_instance_class, region, deployment_option, site, faults) ==
    LET cache_key == <<"rds_postgres", db_instance_class, region, deployment_option>>
        f == FaultAt(faults, site)
    IN  IF cache_key \in DOMAIN cache
        THEN [price |-> Some(cache[cache_key]), cache |-> cache, called |-> FALSE,
              raised |-> FALSE]
        ELSE IF f = "ok"
        THEN [price |-> Some(PriceListRDS(db_instance_class, deployment_option)),
              cache |-> cache @@
                        (cache_key :> PriceListRDS(db_instance_class, deployment_option)),
              called |-> TRUE, raised |-> FALSE]
        ELSE [price |-> None, cache |-> cache, called |-> TRUE,
              raised |-> f = UnexpectedError]

\* module-level get_rds_price_per_hour: live price, else the default table entry,
\* else db.t4g.medium; a default is doubled for Multi-AZ
get_rds_price_per_hour(cache, db_instance_class, region, multi_az, use_api, site, faults) ==
    LET deployment_option == IF multi_az THEN "Multi-AZ" ELSE "Single-AZ"
        live == IF use_api /\ FaultAt(faults, site) # ConstructionError
                THEN client_get_rds_price_per_hour(cache, db_instance_class, region,
                                                   deployment_option, site, faults)
                ELSE [price |-> None, cache |-> cache, called |-> FALSE,
                      raised |-> use_api]
        default_price == IF db_instance_class \in DOMAIN DEFAULT_RDS_POSTGRES_PRICES
                         THEN DEFAULT_RDS_POSTGRES_PRICES[db_instance_class]
                         ELSE DEFAULT_RDS_POSTGRES_PRICES["db.t4g.medium"]
    IN  [price |-> IF ~live.price.none THEN live.price.val
                       ELSE IF multi_az THEN default_price * 2 ELSE default_price,
         cache |-> live.cache, called |-> live.called, raised |-> FALSE]

\* the storage types the model passes: the provider's spelling, an upper-case one,
\* and the scanner's placeholder for a missing StorageType
StorageTypes == {"gp2", "GP3", "N/A"}

\* storage_type.lower()
storage_type_lower(storage_type) ==
    CASE storage_type = "GP3" -> "gp3"
      [] storage_type = "N/A" -> "n/a"
      [] OTHER -> storage_type

\* get_rds_storage_price_per_gb: DEFAULT_RDS_STORAGE_PRICES.get(type.lower(), 0.115)
get_rds_storage_price_per_gb(storage_type) ==
    IF storage_type_lower(storage_type) \in DOMAIN DEFAULT_RDS_STORAGE_PRICES
    THEN DEFAULT_RDS_STORAGE_PRICES[storage_type_lower(storage_type)]
    ELSE 1150

\* a cost that charges the storage of a Multi-AZ instance once (not the source's)
calculate_rds_monthly_cost_storage_once(cache, db_instance_class, region, multi_az, allocated_storage_gb, storage_type, use_api, site, faults) ==
    LET hourly == get_rds_price_per_hour(cache, db_instance_class, region, multi_az,
                                         use_api, site, faults)
        compute_cost == hourly.price * HOURS_PER_MONTH
        storage_cost == get_rds_storage_price_per_gb(storage_type) * allocated_storage_gb
    IN  [cost |-> RoundHalfEven(compute_cost + storage_cost, 100),
         cache |-> hourly.cache, called |-> hourly.called,
         raised |-> hourly.raised]

\* calculate_rds_monthly_cost: round(compute + storage, 2), in cents
calculate_rds_monthly_cost(cache, db_instance_class, region, multi_az, allocated_storage_gb, storage_type, use_api, site, faults) ==
    LET hourly == get_rds_price_per_hour(cache, db_instance_class, region, multi_az,
                                         use_api, site, faults)
        compute_cost == hourly.price * HOURS_PER_MONTH
        storage_cost == get_rds_storage_price_per_gb(storage_type) * allocated_storage_gb
    IN  [cost |-> RoundHalfEven(compute_cost
                                + (IF multi_az THEN storage_cost * 2 ELSE storage_cost),
                                100),
         cache |-> hourly.cache, called |-> hourly.called,
         raised |-> hourly.raised]

\* calculate_snapshot_monthly_cost: round(0.095 * size, 2), in cents
calculate_snapshot_monthly_cost(snapshot_size_gb) ==
    RoundHalfEven(DEFAULT_SNAPSHOT_PRICE_PER_GB * snapshot_size_gb, 100)

----------------------------------------------------------------------------
(* RDSScanner: src/src/scanners/rds_scanner.py *)

DbInstanceIds == <<"db-1", "db-2", "db-3">>

\* cpu_threshold 5.0 and connections_threshold 1 (the defaults), in hundredths
CpuThresholds == {500}
ConnectionsThresholds == {100}

\* the database instances a provider may hold.  CPU and connection series are in
\* hundredths: both means exactly at their thresholds; CPU just above; connections
\* just above (1.005); no CPU data; a stopped instance with idle metrics
RDSProfiles ==
    {[db_instance_class |-> "db.t4g.micro", status |-> "available", multi_az |-> FALSE,
      allocated_storage_gb |-> 20, storage_type |-> "gp2",
      cpu |-> <<499, 501>>, connections |-> <<100>>],
     [db_instance_class |-> "db.t4g.micro", status |-> "available", multi_az |-> FALSE,
      allocated_storage_gb |-> 20, storage_type |-> "gp2",
      cpu |-> <<501>>, connections |-> <<0>>],
     [db_instance_class |-> "db.z9.large", status |-> "available", multi_az |-> TRUE,
      allocated_storage_gb |-> 100, storage_type |-> "gp3",
      cpu |-> <<200>>, connections |-> <<100, 101>>],
     [db_instance_class |-> "db.z9.large", status |-> "available", multi_az |-> TRUE,
      allocated_storage_gb |-> 100, storage_type |-> "N/A",
      cpu |-> <<>>, connections |-> <<0>>],
     [db_instance_class |-> "db.t4g.micro", status |-> "stopped", multi_az |-> FALSE,
      allocated_storage_gb |-> 20, storage_type |-> "gp2",
      cpu |-> <<0>>, connections |-> <<0>>]}

RDSFleets == UNION {[1..n -> RDSProfiles] : n \in 0..MaxResources}

RDSListSite == <<"describe_db_instances", "", 0>>
RDSCpuSite(db_instance_id) == <<"CPUUtilization", db_instance_id, 0>>
RDSConnSite(db_instance_id) == <<"DatabaseConnections", db_instance_id, 0>>

RDSSites(fleet) ==
    {RDSListSite}
    \cup {RDSCpuSite(DbInstanceIds[k]) : k \in 1..Len(fleet)}
    \cup {RDSConnSite(DbInstanceIds[k]) : k \in 1..Len(fleet)}

RDSPricingSites(fleet) == {RDSPricingSite(DbInstanceIds[k]) : k \in 1..Len(fleet)}

\* get_rds_instances: the listing, [] on ClientError or BotoCoreError
get_rds_instances(fleet, faults) ==
    IF FaultAt(faults, RDSListSite) = "ok"
    THEN [k \in 1..Len(fleet) |->
             [db_instance_id |-> DbInstanceIds[k],
              db_instance_class |-> fleet[k].db_instance_class,
              status |-> fleet[k].status,
              allocated_storage_gb |-> fleet[k].allocated_storage_gb,
              multi_az |-> fleet[k].multi_az,
              storage_type |-> fleet[k].storage_type]]
    ELSE <<>>

RDSRecord(fleet, db_instance_id) ==
    fleet[CHOOSE i \in 1..Len(fleet) : DbInstanceIds[i] = db_instance_id]

\* get_cpu_utilization: the datapoints, [] on ClientError or BotoCoreError
get_cpu_utilization(fleet, db_instance_id, faults) ==
    IF FaultAt(faults, RDSCpuSite(db_instance_id)) = "ok"
    THEN RDSRecord(fleet, db_instance_id).cpu
    ELSE <<>>

\* get_database_connections: the datapoints, [] on ClientError or BotoCoreError
get_database_connections(fleet, db_instance_id, faults) ==
    IF FaultAt(faults, RDSConnSite(db_instance_id)) = "ok"
    THEN RDSRecord(fleet, db_instance_id).connections
    ELSE <<>>

\* RDSScanner.calculate_average
calculate_average(datapoints) ==
    IF datapoints = <<>> THEN None
    ELSE [none |-> FALSE, num |-> SumSeq(datapoints), den |-> Len(datapoints)]

\* idle as soon as one of the two signals is at or below its threshold
is_instance_idle_either(self, avg_cpu, avg_connections) ==
    IF avg_cpu.none \/ avg_connections.none THEN FALSE
    ELSE \/ avg_cpu.num <= self.cpu_threshold * avg_cpu.den
         \/ avg_connections.num <= self.connections_threshold * avg_connections.den

\* RDSScanner.is_instance_idle
is_instance_idle(self, avg_cpu, avg_connections) ==
    IF avg_cpu.none \/ avg_connections.none THEN FALSE
    ELSE /\ avg_cpu.num <= self.cpu_threshold * avg_cpu.den
         /\ avg_connections.num <= self.connections_threshold * avg_connections.den

\* available_instances = [i for i in instances if i["status"] == "available"]
RECURSIVE available_only(_)
available_only(instances) ==
    IF instances = <<>> THEN <<>>
    ELSE IF Head(instances).status = "available"
    THEN <<Head(instances)>> \o available_only(Tail(instances))
    ELSE available_only(Tail(instances))

\* the loop of analyze_rds_instances over available_instances[k..]
RECURSIVE rds_analyze_loop(_, _, _, _, _, _, _)
rds_analyze_loop(self, fleet, instances, k, use_api, faults, st) ==
    IF k > Len(instances) THEN st
    ELSE
    LET instance == instances[k]
        db_instance_id == instance.db_instance_id
        cpu_data == get_cpu_utilization(fleet, db_instance_id, faults)
        connections_data == get_database_connections(fleet, db_instance_id, faults)
        avg_cpu == calculate_average(cpu_data)
        avg_connections == calculate_average(connections_data)
        st1 == [st EXCEPT !.calls = @ \o <<RDSCpuSite(db_instance_id),
                                            RDSConnSite(db_instance_id)>>]
    IN  IF is_instance_idle(self, avg_cpu, avg_connections)
        THEN LET mc == calculate_rds_monthly_cost(
                           st1.cache, instance.db_instance_class, self.region,
                           instance.multi_az, instance.allocated_storage_gb,
                           instance.storage_type, use_api,
                           RDSPricingSite(db_instance_id), faults)
                 idle_instance ==
                     [db_instance_id |-> db_instance_id,
                      db_instance_class |-> instance.db_instance_class,
                      allocated_storage_gb |-> instance.allocated_storage_gb,
                      storage_type |-> instance.storage_type,
                      multi_az |-> instance.multi_az,
                      avg_cpu_percent |-> Round2(avg_cpu),
                      avg_connections |-> Round2(avg_connections),
                      estimated_monthly_cost |-> mc.cost,
                      analysis_period_days |-> self.days,
                      cpu_threshold |-> self.cpu_threshold,
                      connections_threshold |-> self.connections_threshold]
                 st2 == [st1 EXCEPT
                            !.idle = Append(@, idle_instance),
                            !.cache = mc.cache,
                            !.calls = IF mc.called
                                      THEN Append(@, RDSPricingSite(db_instance_id))
                                      ELSE @]
             IN  rds_analyze_loop(self, fleet, instances, k + 1, use_api, faults, st2)
        ELSE rds_analyze_loop(self, fleet, instances, k + 1, use_api, faults, st1)

\* RDSScanner.analyze_rds_instances as a function of the provider's answers
rds_analyze(self, cache, fleet, use_api, faults) ==
    rds_analyze_loop(self, fleet, available_only(get_rds_instances(fleet, faults)), 1,
                     use_api, faults,
                     [idle |-> <<>>, cache |-> cache, calls |-> <<RDSListSite>>])

----------------------------------------------------------------------------
(* RDSScanner, manual snapshots: src/src/scanners/rds_scanner.py *)

\* timedelta(days=n) on a clock that counts hours
HoursPerDay == 24

SnapshotIds == <<"snap-1", "snap-2", "snap-3">>

\* snapshot_age_days of the scanner, in days
SnapshotAgeDays == {2}

\* the manual snapshots a provider may hold: the age in hours at the time the scanner
\* is constructed (absent when the provider reports no SnapshotCreateTime) and the
\* size.  With a threshold of 2 days: one hour short of it, exactly at it, one hour
\* past it, one hour short of 3 days, exactly 3 days
SnapshotProfiles ==
    {[age_hours |-> None, allocated_storage_gb |-> 10],
     [age_hours |-> Some(47), allocated_storage_gb |-> 10],
     [age_hours |-> Some(48), allocated_storage_gb |-> 10],
     [age_hours |-> Some(49), allocated_storage_gb |-> 100],
     [age_hours |-> Some(71), allocated_storage_gb |-> 5],
     [age_hours |-> Some(72), allocated_storage_gb |-> 0]}

\* the snapshot as the provider stores it; the scanner is constructed at hour 0
StoredSnapshot(p) ==
    [snapshot_create_time |-> IF p.age_hours.none THEN None ELSE Some(0 - p.age_hours.val),
     allocated_storage_gb |-> p.allocated_storage_gb]

SnapshotStores ==
    UNION {[1..n -> {StoredSnapshot(p) : p \in SnapshotProfiles}] : n \in 0..MaxResources}

SnapshotListSite == <<"describe_db_snapshots", "", 0>>

\* get_manual_snapshots: the listing, [] on ClientError or BotoCoreError
get_manual_snapshots(store, faults) ==
    IF FaultAt(faults, SnapshotListSite) = "ok"
    THEN [k \in 1..Len(store) |->
             [snapshot_id |-> SnapshotIds[k],
              snapshot_create_time |-> store[k].snapshot_create_time,
              allocated_storage_gb |-> store[k].allocated_storage_gb]]
    ELSE <<>>

\* the test of a day more than the code makes
is_old_snapshot_whole_days(create_time, cutoff_date) ==
    /\ ~create_time.none
    /\ create_time.val < cutoff_date - HoursPerDay

\* if create_time and create_time < cutoff_date
is_old_snapshot(create_time, cutoff_date) ==
    /\ ~create_time.none
    /\ create_time.val < cutoff_date

\* (datetime.now(timezone.utc) - create_time).days
age_days_of(now, create_time) == (now - create_time) \div HoursPerDay

\* the loop of find_old_snapshots over snapshots[k..]; now_at[k] is the clock read
\* for the age of the k-th snapshot
RECURSIVE find_old_loop(_, _, _, _, _)
find_old_loop(snapshots, k, cutoff_date, now_at, old) ==
    IF k > Len(snapshots) THEN old
    ELSE
    LET snapshot == snapshots[k]
        create_time == snapshot.snapshot_create_time
    IN  IF is_old_snapshot(create_time, cutoff_date)
        THEN find_old_loop(snapshots, k + 1, cutoff_date, now_at,
                 Append(old,
                     [snapshot_id |-> snapshot.snapshot_id,
                      snapshot_create_time |-> create_time.val,
                      allocated_storage_gb |-> snapshot.allocated_storage_gb,
                      age_days |-> age_days_of(now_at[k], create_time.val),
                      estimated_monthly_cost |->
                          calculate_snapshot_monthly_cost(snapshot.allocated_storage_gb)]))
        ELSE find_old_loop(snapshots, k + 1, cutoff_date, now_at, old)

\* a summary whose total leaves the snapshots out (not the source's)
rds_scan_summary_idle_only(self, now) ==
    LET total_idle_cost == SumField(self.idle_instances, "estimated_monthly_cost")
        total_snapshot_cost == SumField(self.old_snapshots, "estimated_monthly_cost")
    IN  [scanner |-> "RDSScanner",
         region |-> self.region,
         analysis_period_days |-> self.days,
         cpu_threshold_percent |-> self.cpu_threshold,
         connections_threshold |-> self.connections_threshold,
         snapshot_age_threshold_days |-> self.snapshot_age_days,
         idle_instances_count |-> Len(self.idle_instances),
         idle_instances_monthly_cost |-> total_idle_cost,
         idle_instances |-> self.idle_instances,
         old_snapshots_count |-> Len(self.old_snapshots),
         old_snapshots_monthly_cost |-> total_snapshot_cost,
         old_snapshots |-> self.old_snapshots,
         total_potential_monthly_savings |-> total_idle_cost,
         scan_timestamp |-> now]

\* RDSScanner.get_scan_summary
rds_scan_summary(self, now) ==
    LET total_idle_cost == SumField(self.idle_instances, "estimated_monthly_cost")
        total_snapshot_cost == SumField(self.old_snapshots, "estimated_monthly_cost")
    IN  [scanner |-> "RDSScanner",
         region |-> self.region,
         analysis_period_days |-> self.days,
         cpu_threshold_percent |-> self.cpu_threshold,
         connections_threshold |-> self.connections_threshold,
         snapshot_age_threshold_days |-> self.snapshot_age_days,
         idle_instances_count |-> Len(self.idle_instances),
         idle_instances_monthly_cost |-> total_idle_cost,
         idle_instances |-> self.idle_instances,
         old_snapshots_count |-> Len(self.old_snapshots),
         old_snapshots_monthly_cost |-> total_snapshot_cost,
         old_snapshots |-> self.old_snapshots,
         total_potential_monthly_savings |-> total_idle_cost + total_snapshot_cost,
         scan_timestamp |-> now]

----------------------------------------------------------------------------
(* Pricing: src/src/utils/aws_ebs_pricing.py *)

\* DEFAULT_EBS_PRICES, in 1/10000 USD per GB-month
DEFAULT_EBS_PRICES ==
    [t \in {"standard", "gp2", "gp3", "io1", "io2", "sc1", "st1"} |->
        CASE t = "standard" -> 500 [] t = "gp2" -> 1000 [] t = "gp3" -> 800
          [] t = "io1" -> 1250 [] t = "io2" -> 1250 [] t = "sc1" -> 150
          [] OTHER -> 450]

\* DEFAULT_IOPS_PRICES, in 1/10000 USD per IOPS-month
DEFAULT_IOPS_PRICES ==
    [t \in {"io1", "io2", "gp3"} |-> IF t = "gp3" THEN 50 ELSE 650]

\* DEFAULT_GP3_THROUGHPUT_PRICE, in 1/10000 USD per MB/s-month
DEFAULT_GP3_THROUGHPUT_PRICE == 600

\* what the Price List API answers for a volume type when the call succeeds: a
\* price that differs from the default table for gp2, the default for gp3 and io1,
\* and no product for a type the catalogue does not know
PriceListEBS(volume_type) ==
    CASE volume_type = "gp2" -> Some(1100)
      [] volume_type = "gp3" -> Some(800)
      [] volume_type = "io1" -> Some(1250)
      [] OTHER -> None

EBSPricingSite(volume_id, pass) == <<"get_products", volume_id, pass>>

\* a client that also remembers the outcome of a failed lookup (not the source's)
client_get_ebs_price_per_gb_caching_failures(cache, volume_type, region, site, faults) ==
    LET cache_key == <<"ebs", volume_type, region>>
    IN  IF cache_key \in DOMAIN cache
        THEN [price |-> Some(cache[cache_key]), cache |-> cache, called |-> FALSE,
              raised |-> FALSE]
        ELSE IF FaultAt(faults, site) = "ok" /\ ~PriceListEBS(volume_type).none
        THEN [price |-> PriceListEBS(volume_type),
              cache |-> cache @@ (cache_key :> PriceListEBS(volume_type).val),
              called |-> TRUE, raised |-> FALSE]
        ELSE [price |-> None, cache |-> cache @@ (cache_key :> 0), called |-> TRUE,
              raised |-> FaultAt(faults, site) = UnexpectedError]

\* a client that looks every price up again (not the source's)
client_get_ebs_price_per_gb_uncached(cache, volume_type, region, site, faults) ==
    IF FaultAt(faults, site) = "ok" /\ ~PriceListEBS(volume_type).none
    THEN [price |-> PriceListEBS(volume_type), cache |-> cache, called |-> TRUE,
          raised |-> FALSE]
    ELSE [price |-> None, cache |-> cache, called |-> TRUE,
          raised |-> FaultAt(faults, site) = UnexpectedError]

\* AWSPricingClient.get_ebs_price_per_gb
client_get_ebs_price_per_gb(cache, volume_type, region, site, faults) ==
    LET cache_key == <<"ebs", volume_type, region>>
    IN  IF cache_key \in DOMAIN cache
        THEN [price |-> Some(cache[cache_key]), cache |-> cache, called |-> FALSE,
              raised |-> FALSE]
        ELSE IF FaultAt(faults, site) = "ok" /\ ~PriceListEBS(volume_type).none
        THEN [price |-> PriceListEBS(volume_type),
              cache |-> cache @@ (cache_key :> PriceListEBS(volume_type).val),
              called |-> TRUE, raised |-> FALSE]
        ELSE [price |-> None, cache |-> cache, called |-> TRUE,
              raised |-> FaultAt(faults, site) = UnexpectedError]

\* a resolver that lets an exception of the live lookup pass (not the source's)
get_ebs_cost_per_gb_uncaught(cache, volume_type, region, use_api, site, faults) ==
    LET live == IF use_api /\ FaultAt(faults, site) # ConstructionError
                THEN client_get_ebs_price_per_gb(cache, volume_type, region, site, faults)
                ELSE [price |-> None, cache |-> cache, called |-> FALSE,
                      raised |-> use_api]
    IN  [price |-> IF ~live.price.none THEN live.price.val
                   ELSE IF volume_type \in DOMAIN DEFAULT_EBS_PRICES
                   THEN DEFAULT_EBS_PRICES[volume_type]
                   ELSE DEFAULT_EBS_PRICES["gp2"],
         cache |-> live.cache, called |-> live.called, raised |-> live.raised]

\* get_ebs_cost_per_gb: live price, else the default table entry, else gp2
get_ebs_cost_per_gb(cache, volume_type, region, use_api, site, faults) ==
    LET live == IF use_api /\ FaultAt(faults, site) # ConstructionError
                THEN client_get_ebs_price_per_gb(cache, volume_type, region, site, faults)
                ELSE [price |-> None, cache |-> cache, called |-> FALSE,
                      raised |-> use_api]
    IN  [price |-> IF ~live.price.none THEN live.price.val
                   ELSE IF volume_type \in DOMAIN DEFAULT_EBS_PRICES
                   THEN DEFAULT_EBS_PRICES[volume_type]
                   ELSE DEFAULT_EBS_PRICES["gp2"],
         cache |-> live.cache, called |-> live.called, raised |-> FALSE]

\* an IOPS charge that grants the 3000 free IOPS to every type (not the source's)
ebs_iops_cost_with_free_tier(volume_type, iops) ==
    IF volume_type \in {"io1", "io2", "gp3"} /\ ~iops.none /\ iops.val > 3000
    THEN (iops.val - 3000) * DEFAULT_IOPS_PRICES[volume_type]
    ELSE 0

\* the IOPS and throughput charges of calculate_ebs_monthly_cost, in 1/10000 USD
ebs_iops_cost(volume_type, iops) ==
    IF volume_type \in {"io1", "io2"} /\ ~iops.none /\ iops.val # 0
    THEN iops.val * DEFAULT_IOPS_PRICES[volume_type]
    ELSE IF volume_type = "gp3" /\ ~iops.none /\ iops.val > 3000
    THEN (iops.val - 3000) * DEFAULT_IOPS_PRICES["gp3"]
    ELSE 0

ebs_throughput_cost(volume_type, throughput_mbps) ==
    IF volume_type = "gp3" /\ ~throughput_mbps.none /\ throughput_mbps.val > 125
    THEN (throughput_mbps.val - 125) * DEFAULT_GP3_THROUGHPUT_PRICE
    ELSE 0

\* calculate_ebs_monthly_cost: round(total_cost, 2), in cents
calculate_ebs_monthly_cost(cache, volume_type, size_gb, region, iops, throughput_mbps, use_api, site, faults) ==
    LET per_gb == get_ebs_cost_per_gb(cache, volume_type, region, use_api, site, faults)
    IN  [cost |-> RoundHalfEven(size_gb * per_gb.price
                                + ebs_iops_cost(volume_type, iops)
                                + ebs_throughput_cost(volume_type, throughput_mbps),
                                100),
         cache |-> per_gb.cache, called |-> per_gb.called,
         raised |-> per_gb.raised]

----------------------------------------------------------------------------
(* EBSScanner: src/src/scanners/ebs_scanner.py *)

VolumeIds == <<"vol-1", "vol-2", "vol-3">>

\* the volumes a provider may hold, with the daily sums of VolumeReadOps and
\* VolumeWriteOps over the window: an unattached volume without any datapoint; an
\* attached one a single operation below the default threshold of 100; an attached
\* one exactly at it; an unattached busy one with provisioned IOPS; an attached one
\* of an unknown type whose datapoints are all zero
EBSProfiles ==
    {[VolumeType |-> "gp3", Size |-> 10, Iops |-> None, Throughput |-> None,
      State |-> "available", read_ops |-> <<>>, write_ops |-> <<>>],
     [VolumeType |-> "gp2", Size |-> 80, Iops |-> None, Throughput |-> None,
      State |-> "in-use", read_ops |-> <<40>>, write_ops |-> <<20, 39>>],
     [VolumeType |-> "gp2", Size |-> 80, Iops |-> None, Throughput |-> None,
      State |-> "in-use", read_ops |-> <<50>>, write_ops |-> <<50>>],
     [VolumeType |-> "io1", Size |-> 100, Iops |-> Some(1000), Throughput |-> None,
      State |-> "available", read_ops |-> <<1000>>, write_ops |-> <<1>>],
     [VolumeType |-> "xx1", Size |-> 8, Iops |-> None, Throughput |-> None,
      State |-> "in-use", read_ops |-> <<0>>, write_ops |-> <<0>>]}

EBSFleets == UNION {[1..n -> EBSProfiles] : n \in 0..MaxResources}

EBSUnattachedListSite == <<"describe_volumes", "available", 0>>
EBSListSite == <<"describe_volumes", "", 0>>
EBSReadSite(volume_id) == <<"VolumeReadOps", volume_id, 0>>
EBSWriteSite(volume_id) == <<"VolumeWriteOps", volume_id, 0>>

EBSSites(fleet) ==
    {EBSUnattachedListSite, EBSListSite}
    \cup {EBSReadSite(VolumeIds[k]) : k \in 1..Len(fleet)}
    \cup {EBSWriteSite(VolumeIds[k]) : k \in 1..Len(fleet)}

\* one pricing lookup per costed volume in each of the three costing passes
EBSPricingSites(fleet) ==
    {EBSPricingSite(VolumeIds[k], pass) : k \in 1..Len(fleet), pass \in 1..3}

\* the volume dictionary of a describe_volumes response
Volume(fleet, k) ==
    [VolumeId |-> VolumeIds[k], VolumeType |-> fleet[k].VolumeType,
     Size |-> fleet[k].Size, Iops |-> fleet[k].Iops,
     Throughput |-> fleet[k].Throughput, State |-> fleet[k].State]

RECURSIVE volumes_from(_, _, _)
volumes_from(fleet, k, only_available) ==
    IF k > Len(fleet) THEN <<>>
    ELSE IF only_available /\ fleet[k].State # "available"
    THEN volumes_from(fleet, k + 1, only_available)
    ELSE <<Volume(fleet, k)>> \o volumes_from(fleet, k + 1, only_available)

\* the listing whatever the call did
get_unattached_volumes_unfailing(fleet, faults) == volumes_from(fleet, 1, TRUE)

\* get_unattached_volumes: the volumes in state available, [] on either error
\* a listing without the filter on the state (not the source's)
get_unattached_volumes_any_state(fleet, faults) ==
    IF FaultAt(faults, EBSUnattachedListSite) = "ok"
    THEN volumes_from(fleet, 1, FALSE)
    ELSE <<>>

get_unattached_volumes(fleet, faults) ==
    IF FaultAt(faults, EBSUnattachedListSite) = "ok"
    THEN volumes_from(fleet, 1, TRUE)
    ELSE <<>>

\* only the read operations counted
total_io_reads_only(read_datapoints, write_datapoints) == SumSeq(read_datapoints)

\* total_io = total_read_io + total_write_io; the sum of no datapoints is 0
total_io_of(read_datapoints, write_datapoints) ==
    SumSeq(read_datapoints) + SumSeq(write_datapoints)

\* the comparison with the threshold included
is_low_io_inclusive(total_io, io_threshold) == total_io <= io_threshold

\* a volume without any recorded operation is never low I/O
is_low_io_some_io(total_io, io_threshold) == total_io # 0 /\ total_io < io_threshold

\* if total_io < self.io_threshold
is_low_io(total_io, io_threshold) == total_io < io_threshold

\* the loop of get_low_io_volumes over the listed volumes[k..]; the whole loop is
\* inside one try, so the first metrics call that raises ends it
RECURSIVE low_io_loop(_, _, _, _, _, _)
low_io_loop(self, fleet, volumes, k, faults, st) ==
    IF k > Len(volumes) THEN st
    ELSE
    LET volume == volumes[k]
        volume_id == volume.VolumeId
        p == fleet[CHOOSE i \in 1..Len(fleet) : VolumeIds[i] = volume_id]
        total_io == total_io_of(p.read_ops, p.write_ops)
    IN  IF FaultAt(faults, EBSReadSite(volume_id)) # "ok"
        THEN [st EXCEPT !.raised = TRUE, !.calls = Append(@, EBSReadSite(volume_id))]
        ELSE IF FaultAt(faults, EBSWriteSite(volume_id)) # "ok"
        THEN [st EXCEPT !.raised = TRUE,
                        !.calls = @ \o <<EBSReadSite(volume_id), EBSWriteSite(volume_id)>>]
        ELSE low_io_loop(self, fleet, volumes, k + 1, faults,
                 [st EXCEPT !.low = IF is_low_io(total_io, self.io_threshold)
                                    THEN Append(@, volume) ELSE @,
                            !.calls = @ \o <<EBSReadSite(volume_id),
                                             EBSWriteSite(volume_id)>>])

\* get_low_io_volumes: [value, calls]; the except clause returns []
get_low_io_volumes(self, fleet, faults) ==
    IF FaultAt(faults, EBSListSite) # "ok"
    THEN [value |-> <<>>, calls |-> <<EBSListSite>>, caught |-> TRUE]
    ELSE LET st == low_io_loop(self, fleet, volumes_from(fleet, 1, FALSE), 1, faults,
                               [low |-> <<>>, raised |-> FALSE, calls |-> <<EBSListSite>>])
         IN  [value |-> IF st.raised THEN <<>> ELSE st.low,
              calls |-> st.calls, caught |-> st.raised]

\* EBSScanner.calculate_monthly_cost for the lookup made at the given costing pass
ebs_calculate_monthly_cost(self, cache, volume, use_api, pass, faults) ==
    calculate_ebs_monthly_cost(cache, volume.VolumeType, volume.Size, self.region,
                               volume.Iops, volume.Throughput, use_api,
                               EBSPricingSite(volume.VolumeId, pass), faults)

\* sum(self.calculate_monthly_cost(volume, ...) for volume in volumes[k..])
RECURSIVE cost_pass(_, _, _, _, _, _, _)
cost_pass(self, volumes, k, pass, use_api, faults, st) ==
    IF k > Len(volumes) THEN st
    ELSE LET mc == ebs_calculate_monthly_cost(self, st.cache, volumes[k], use_api,
                                              pass, faults)
         IN  cost_pass(self, volumes, k + 1, pass, use_api, faults,
                 [costs |-> Append(st.costs, mc.cost),
                  cache |-> mc.cache,
                  calls |-> IF mc.called
                            THEN Append(st.calls, EBSPricingSite(volumes[k].VolumeId, pass))
                            ELSE st.calls])

\* no volume is taken out of the low-I/O list
low_io_all(low_io_volumes, unattached_ids) == low_io_volumes

\* [v for v in self.low_io_volumes if v["VolumeId"] not in unattached_ids]
RECURSIVE low_io_only(_, _)
low_io_only(low_io_volumes, unattached_ids) ==
    IF low_io_volumes = <<>> THEN <<>>
    ELSE IF Head(low_io_volumes).VolumeId \in unattached_ids
    THEN low_io_only(Tail(low_io_volumes), unattached_ids)
    ELSE <<Head(low_io_volumes)>> \o low_io_only(Tail(low_io_volumes), unattached_ids)

\* the result dict of analyze_ebs_volumes, from the two lists and the three sums
ebs_result(unattached_volumes, low_io_volumes, p1, p2, p3) ==
    LET unattached_volumes_cost == SumSeq(p1.costs)
        low_io_volumes_cost == SumSeq(p2.costs)
        low_io_only_cost == SumSeq(p3.costs)
        total_potential_savings == unattached_volumes_cost + low_io_only_cost
    IN  [unattached_volumes_count |-> Len(unattached_volumes),
         unattached_volumes_monthly_cost |-> unattached_volumes_cost,
         low_io_volumes_count |-> Len(low_io_volumes),
         low_io_volumes_monthly_cost |-> low_io_volumes_cost,
         total_potential_monthly_savings |-> total_potential_savings,
         unattached_volumes |-> unattached_volumes,
         low_io_volumes |-> low_io_volumes]
----------------------------------------------------------------------------
(* Pricing: src/src/utils/aws_s3_pricing.py *)

\* DEFAULT_S3_STORAGE_PRICES restricted to the keys the model uses, in 1/10000 USD
\* per GB-month
DEFAULT_S3_STORAGE_PRICES ==
    [c \in {"STANDARD", "STANDARD_IA"} |-> IF c = "STANDARD" THEN 230 ELSE 125]

\* the spellings of a storage class the model passes: the provider's, a lower-case
\* one with a hyphen, and a class that is in no table
StorageClasses == {"STANDARD", "STANDARD_IA", "standard-ia", "OUTPOSTS"}

\* storage_class.upper().replace("-", "_")
storage_class_upper(storage_class) ==
    IF storage_class = "standard-ia" THEN "STANDARD_IA" ELSE storage_class

\* get_storage_price_per_gb: the table entry of the normalised class, STANDARD for
\* an unknown class
get_storage_price_per_gb(storage_class) ==
    IF storage_class_upper(storage_class) \in DOMAIN DEFAULT_S3_STORAGE_PRICES
    THEN DEFAULT_S3_STORAGE_PRICES[storage_class_upper(storage_class)]
    ELSE DEFAULT_S3_STORAGE_PRICES["STANDARD"]

\* calculate_storage_monthly_cost: round(size_bytes / 1024**3 * price, 2), in cents.
\* Bucket sizes are in MiB, so a GB is 1024 of them
calculate_storage_monthly_cost(size_mib, storage_class) ==
    RoundHalfEven(size_mib * get_storage_price_per_gb(storage_class), 1024 * 100)

\* calculate_bucket_monthly_cost: storage only, the object count is not used
calculate_bucket_monthly_cost(size_mib, object_count) ==
    calculate_storage_monthly_cost(size_mib, "STANDARD")

----------------------------------------------------------------------------
(* S3Scanner: src/src/scanners/s3_scanner.py *)

BucketNames == <<"bucket-1", "bucket-2", "bucket-3">>

\* request_threshold of the scanner (the default)
RequestThresholds == {10}

\* the buckets a provider may hold: the LocationConstraint (None for us-east-1),
\* the daily sums of AllRequests over the window (no datapoint when request
\* metrics are not enabled), the size in MiB and the object count.  Requests: none
\* at all with metrics enabled; exactly the threshold; one above it; no metrics
S3Profiles ==
    {[location |-> None, requests |-> <<0, 0>>, size |-> Some(10240),
      objects |-> Some(7)],
     [location |-> Some("eu-west-1"), requests |-> <<4, 6>>, size |-> Some(1024),
      objects |-> Some(1)],
     [location |-> None, requests |-> <<11>>, size |-> Some(2048),
      objects |-> Some(3)],
     [location |-> Some("eu-west-1"), requests |-> <<>>, size |-> Some(51200),
      objects |-> None]}

S3Fleets == UNION {[1..n -> S3Profiles] : n \in 0..MaxResources}

S3ListSite == <<"list_buckets", "", 0>>
S3LocationSite(bucket_name) == <<"get_bucket_location", bucket_name, 0>>
S3RequestsSite(bucket_name) == <<"AllRequests", bucket_name, 0>>
S3SizeSite(bucket_name) == <<"BucketSizeBytes", bucket_name, 0>>
S3CountSite(bucket_name) == <<"NumberOfObjects", bucket_name, 0>>

S3Sites(fleet) ==
    {S3ListSite}
    \cup UNION {{S3LocationSite(BucketNames[k]), S3RequestsSite(BucketNames[k]),
                 S3SizeSite(BucketNames[k]), S3CountSite(BucketNames[k])} :
                k \in 1..Len(fleet)}

\* a region lookup that answers the default region when the call fails (not the
\* source's)
get_bucket_region_defaulting(fleet, k, faults) ==
    IF FaultAt(faults, S3LocationSite(BucketNames[k])) # "ok" THEN "us-east-1"
    ELSE IF fleet[k].location.none THEN "us-east-1"
    ELSE fleet[k].location.val

\* S3Scanner._get_bucket_region
get_bucket_region(fleet, k, faults) ==
    IF FaultAt(faults, S3LocationSite(BucketNames[k])) # "ok" THEN "unknown"
    ELSE IF fleet[k].location.none THEN "us-east-1"
    ELSE fleet[k].location.val

\* S3Scanner.get_all_buckets: name and region of every bucket, [] when list_buckets
\* raises
get_all_buckets(fleet, faults) ==
    IF FaultAt(faults, S3ListSite) = "ok"
    THEN [k \in 1..Len(fleet) |->
             [bucket_name |-> BucketNames[k],
              region |-> get_bucket_region(fleet, k, faults)]]
    ELSE <<>>

S3Record(fleet, bucket_name) ==
    fleet[CHOOSE i \in 1..Len(fleet) : BucketNames[i] = bucket_name]

\* S3Scanner.get_bucket_request_metrics
get_bucket_request_metrics(fleet, bucket_name, faults) ==
    IF FaultAt(faults, S3RequestsSite(bucket_name)) # "ok"
    THEN [has_metrics |-> FALSE, total_requests |-> 0]
    ELSE IF S3Record(fleet, bucket_name).requests = <<>>
    THEN [has_metrics |-> FALSE, total_requests |-> 0]
    ELSE [has_metrics |-> TRUE,
          total_requests |-> SumSeq(S3Record(fleet, bucket_name).requests)]

\* S3Scanner.get_bucket_storage_metrics: both queries share one try, so a failing
\* size query also loses the object count
get_bucket_storage_metrics(fleet, bucket_name, faults) ==
    LET b == S3Record(fleet, bucket_name)
        size_bytes == IF b.size.none THEN 0 ELSE b.size.val
        object_count == IF b.objects.none THEN 0 ELSE b.objects.val
    IN  IF FaultAt(faults, S3SizeSite(bucket_name)) # "ok"
        THEN [size_bytes |-> 0, object_count |-> 0, calls |-> <<S3SizeSite(bucket_name)>>]
        ELSE IF FaultAt(faults, S3CountSite(bucket_name)) # "ok"
        THEN [size_bytes |-> size_bytes, object_count |-> 0,
              calls |-> <<S3SizeSite(bucket_name), S3CountSite(bucket_name)>>]
        ELSE [size_bytes |-> size_bytes, object_count |-> object_count,
              calls |-> <<S3SizeSite(bucket_name), S3CountSite(bucket_name)>>]

\* the bucket counts as unused only below the threshold
is_bucket_unused_strict(self, total_requests) == total_requests < self.request_threshold

\* S3Scanner.is_bucket_unused
is_bucket_unused(self, total_requests) == total_requests <= self.request_threshold

\* the loop of analyze_s3_buckets over buckets[k..]
RECURSIVE s3_analyze_loop(_, _, _, _, _, _)
s3_analyze_loop(self, fleet, buckets, k, faults, st) ==
    IF k > Len(buckets) THEN st
    ELSE
    LET bucket_name == buckets[k].bucket_name
        bucket_region == buckets[k].region
        request_metrics == get_bucket_request_metrics(fleet, bucket_name, faults)
        storage_metrics == get_bucket_storage_metrics(fleet, bucket_name, faults)
        bucket_info ==
            [bucket_name |-> bucket_name,
             region |-> bucket_region,
             size_bytes |-> storage_metrics.size_bytes,
             object_count |-> storage_metrics.object_count,
             estimated_monthly_cost |->
                 calculate_bucket_monthly_cost(storage_metrics.size_bytes,
                                               storage_metrics.object_count),
             analysis_period_days |-> self.days]
        st1 == [st EXCEPT !.calls = @ \o <<S3RequestsSite(bucket_name)>>
                                      \o storage_metrics.calls]
    IN  IF bucket_region = "unknown"
        THEN s3_analyze_loop(self, fleet, buckets, k + 1, faults, st)
        ELSE IF ~request_metrics.has_metrics
        THEN s3_analyze_loop(self, fleet, buckets, k + 1, faults,
                 [st1 EXCEPT !.without_metrics =
                     Append(@, bucket_info @@ [status |-> "metrics_not_enabled"])])
        ELSE IF is_bucket_unused(self, request_metrics.total_requests)
        THEN s3_analyze_loop(self, fleet, buckets, k + 1, faults,
                 [st1 EXCEPT !.unused =
                     Append(@, bucket_info @@
                               [total_requests |-> request_metrics.total_requests,
                                request_threshold |-> self.request_threshold,
                                status |-> "unused"])])
        ELSE s3_analyze_loop(self, fleet, buckets, k + 1, faults, st1)

\* S3Scanner.analyze_s3_buckets as a function of the provider's answers
s3_analyze(self, fleet, faults) ==
    s3_analyze_loop(self, fleet, get_all_buckets(fleet, faults), 1, faults,
        [unused |-> <<>>, without_metrics |-> <<>>,
         calls |-> <<S3ListSite>> \o
                   (IF FaultAt(faults, S3ListSite) = "ok"
                    THEN [k \in 1..Len(fleet) |-> S3LocationSite(BucketNames[k])]
                    ELSE <<>>)])

\* S3Scanner.get_scan_summary
s3_scan_summary(self, now) ==
    LET total_unused_cost == SumField(self.unused_buckets, "estimated_monthly_cost")
    IN  [scanner |-> "S3Scanner",
         region |-> self.region,
         analysis_period_days |-> self.days,
         request_threshold |-> self.request_threshold,
         unused_buckets_count |-> Len(self.unused_buckets),
         unused_buckets_monthly_cost |-> total_unused_cost,
         unused_buckets |-> self.unused_buckets,
         buckets_without_metrics_count |-> Len(self.buckets_without_metrics),
         buckets_without_metrics |-> self.buckets_without_metrics,
         total_potential_monthly_savings |-> total_unused_cost,
         scan_timestamp |-> now]

----------------------------------------------------------------------------
(* Scanners the process has not constructed; their provider holds nothing *)

\* no scanner object: none of its attributes exists
NotConstructed == << >>

\* a method can only be called on a scanner object that was constructed
Constructed(scanner) == DOMAIN scanner # {}

NoReturn == [op |-> "__init__", outcome |-> "returned", value |-> <<>>,
             use_api |-> FALSE, faults |-> {}, calls |-> <<>>]

NoEC2 ==
    /\ aws_ec2 = <<>>
    /\ ec2_scanner = NotConstructed
    /\ ec2_price_cache = << >>
    /\ ec2_ret = NoReturn

NoRDS ==
    /\ aws_rds = <<>>
    /\ aws_snapshots = <<>>
    /\ rds_scanner = NotConstructed
    /\ rds_price_cache = << >>
    /\ rds_ret = NoReturn

NoEBS ==
    /\ aws_ebs = <<>>
    /\ ebs_scanner = NotConstructed
    /\ ebs_price_cache = << >>
    /\ ebs_ret = NoReturn

NoS3 ==
    /\ aws_s3 = <<>>
    /\ s3_scanner = NotConstructed
    /\ s3_ret = NoReturn

----------------------------------------------------------------------------
(* Operations and specification: EC2Scanner *)

\* the operation: resets self.idle_instances, scans, returns the list (or raises)
analyze_ec2_instances ==
    /\ Constructed(ec2_scanner)
    /\ \E use_pricing_api \in BOOLEAN :
           LET r == ec2_analyze(ec2_scanner, ec2_price_cache, aws_ec2, use_pricing_api,
                                aws_faults)
           IN  /\ ec2_scanner' = [ec2_scanner EXCEPT !.idle_instances = r.idle]
               /\ ec2_price_cache' = r.cache
               /\ ec2_ret' = [op |-> "analyze_ec2_instances",
                              outcome |-> IF r.raised THEN "raised" ELSE "returned",
                              value |-> IF r.raised THEN <<>> ELSE r.idle,
                              use_api |-> use_pricing_api,
                              faults |-> aws_faults,
                              calls |-> r.calls]
               /\ UNCHANGED <<threads, pricing_ret, aws_faults, clock, aws_ec2, rds_vars, ebs_vars, s3_vars>>

\* the operation get_running_ec2_instances called on its own
call_get_running_ec2_instances ==
    /\ Constructed(ec2_scanner)
    /\ LET r == get_running_ec2_instances(aws_ec2, aws_faults)
       IN  ec2_ret' = [op |-> "get_running_ec2_instances",
                       outcome |-> IF r.raised THEN "raised" ELSE "returned",
                       value |-> r.value,
                       use_api |-> FALSE,
                       faults |-> aws_faults,
                       calls |-> <<EC2ListSite>>]
    /\ UNCHANGED <<threads, pricing_ret, aws_faults, clock, aws_ec2, ec2_scanner, ec2_price_cache,
                   rds_vars, ebs_vars, s3_vars>>

\* the provider's failing calls recover (a throttle ends, a connection comes back)
provider_recovers ==
    /\ aws_faults # {}
    /\ aws_faults' = {}
    /\ UNCHANGED <<threads, pricing_ret, clock, ec2_vars, rds_vars, ebs_vars, s3_vars>>

InitEC2 ==
    /\ aws_ec2 \in EC2Fleets
    /\ aws_faults \in FaultPlans(EC2Sites(aws_ec2), EC2PricingSites(aws_ec2))
    /\ clock = 0
    /\ threads = NoThreads
    /\ pricing_ret = NoReturn
    /\ \E t \in IdleThresholds :
          ec2_scanner = [region |-> "us-east-1", days |-> 14, idle_threshold |-> t,
                         idle_instances |-> <<>>]
    /\ ec2_price_cache = << >>
    /\ ec2_ret = NoReturn
    /\ NoRDS /\ NoEBS /\ NoS3

NextEC2 ==
    analyze_ec2_instances \/ call_get_running_ec2_instances \/ provider_recovers

SpecEC2 == InitEC2 /\ [][NextEC2]_vars

----------------------------------------------------------------------------
(* Operations and specifications: RDSScanner *)

\* the operation: resets self.idle_instances, scans, returns the list
analyze_rds_instances ==
    /\ Constructed(rds_scanner)
    /\ \E use_pricing_api \in BOOLEAN :
       \E r \in {rds_analyze(rds_scanner, rds_price_cache, aws_rds, use_pricing_api,
                             aws_faults)} :
           /\ rds_scanner' = [rds_scanner EXCEPT !.idle_instances = r.idle]
           /\ rds_price_cache' = r.cache
           /\ rds_ret' = [op |-> "analyze_rds_instances",
                          outcome |-> "returned",
                          value |-> r.idle,
                          use_api |-> use_pricing_api,
                          faults |-> aws_faults,
                          calls |-> r.calls]
           /\ UNCHANGED <<threads, pricing_ret, aws_faults, clock, aws_rds, aws_snapshots,
                          ec2_vars, ebs_vars, s3_vars>>

\* the operation get_rds_instances called on its own
call_get_rds_instances ==
    /\ Constructed(rds_scanner)
    /\ rds_ret' = [op |-> "get_rds_instances",
                   outcome |-> "returned",
                   value |-> get_rds_instances(aws_rds, aws_faults),
                   use_api |-> FALSE,
                   faults |-> aws_faults,
                   calls |-> <<RDSListSite>>]
    /\ UNCHANGED <<threads, pricing_ret, aws_faults, clock, aws_rds, aws_snapshots, rds_scanner,
                   rds_price_cache, ec2_vars, ebs_vars, s3_vars>>

InitRDS ==
    /\ aws_rds \in RDSFleets
    /\ aws_snapshots = <<>>
    /\ aws_faults \in FaultPlans(RDSSites(aws_rds), RDSPricingSites(aws_rds))
    /\ clock = 0
    /\ threads = NoThreads
    /\ pricing_ret = NoReturn
    /\ \E c \in CpuThresholds, n \in ConnectionsThresholds :
          rds_scanner = [region |-> "us-east-1", days |-> 14, cpu_threshold |-> c,
                         connections_threshold |-> n, snapshot_age_days |-> 90,
                         idle_instances |-> <<>>, old_snapshots |-> <<>>]
    /\ rds_price_cache = << >>
    /\ rds_ret = NoReturn
    /\ NoEC2 /\ NoEBS /\ NoS3

NextRDS == analyze_rds_instances \/ call_get_rds_instances \/ provider_recovers

SpecRDS == InitRDS /\ [][NextRDS]_vars

\* the operation: resets self.old_snapshots, lists the manual snapshots, reads the
\* clock for the cutoff and again for the age of each snapshot it keeps.  The clock
\* may move on between the reads: the reads from the first_late-th snapshot on see
\* the next hour
find_old_snapshots ==
    /\ Constructed(rds_scanner)
    /\ LET snapshots == get_manual_snapshots(aws_snapshots, aws_faults)
           cutoff_date == clock - HoursPerDay * rds_scanner.snapshot_age_days
       IN  \E first_late \in 1..(Len(snapshots) + 1) :
               LET now_at == [k \in 1..Len(snapshots) |->
                                 IF k >= first_late THEN clock + 1 ELSE clock]
                   old == find_old_loop(snapshots, 1, cutoff_date, now_at, <<>>)
               IN  /\ first_late <= Len(snapshots) => clock < MaxClock
                   /\ clock' = IF first_late <= Len(snapshots) THEN clock + 1 ELSE clock
                   /\ rds_scanner' = [rds_scanner EXCEPT !.old_snapshots = old]
                   /\ rds_ret' = [op |-> "find_old_snapshots",
                                  outcome |-> "returned",
                                  value |-> old,
                                  use_api |-> FALSE,
                                  faults |-> aws_faults,
                                  calls |-> <<SnapshotListSite>>,
                                  now |-> clock,
                                  now_at |-> now_at]
                   /\ UNCHANGED <<threads, pricing_ret, aws_faults, aws_rds, aws_snapshots, rds_price_cache,
                                  ec2_vars, ebs_vars, s3_vars>>

\* the operation get_manual_snapshots called on its own
call_get_manual_snapshots ==
    /\ Constructed(rds_scanner)
    /\ rds_ret' = [op |-> "get_manual_snapshots",
                   outcome |-> "returned",
                   value |-> get_manual_snapshots(aws_snapshots, aws_faults),
                   use_api |-> FALSE,
                   faults |-> aws_faults,
                   calls |-> <<SnapshotListSite>>]
    /\ UNCHANGED <<threads, pricing_ret, aws_faults, clock, aws_rds, aws_snapshots, rds_scanner,
                   rds_price_cache, ec2_vars, ebs_vars, s3_vars>>

\* an hour passes between two operations
time_passes ==
    /\ clock < MaxClock
    /\ clock' = clock + 1
    /\ UNCHANGED <<threads, pricing_ret, aws_faults, ec2_vars, rds_vars, ebs_vars, s3_vars>>

InitSnapshots ==
    /\ aws_snapshots \in SnapshotStores
    /\ aws_rds = <<>>
    /\ aws_faults \in FaultPlans({SnapshotListSite}, {})
    /\ clock = 0
    /\ threads = NoThreads
    /\ pricing_ret = NoReturn
    /\ \E t \in SnapshotAgeDays :
          rds_scanner = [region |-> "us-east-1", days |-> 14, cpu_threshold |-> 500,
                         connections_threshold |-> 100, snapshot_age_days |-> t,
                         idle_instances |-> <<>>, old_snapshots |-> <<>>]
    /\ rds_price_cache = << >>
    /\ rds_ret = NoReturn
    /\ NoEC2 /\ NoEBS /\ NoS3

NextSnapshots ==
    find_old_snapshots \/ call_get_manual_snapshots \/ time_passes \/ provider_recovers

SpecSnapshots == InitSnapshots /\ [][NextSnapshots]_vars

----------------------------------------------------------------------------
(* Operations and specifications: EBSScanner *)

\* io_threshold of the scanner: the default, and zero
IoThresholds == {100, 0}

\* an operation that deletes the unattached volumes it finds (not the source's)
delete_unattached_volumes ==
    /\ Constructed(ebs_scanner)
    /\ aws_ebs' = SelectSeq(aws_ebs, LAMBDA v : v.State # "available")
    /\ ebs_ret' = [op |-> "get_unattached_volumes",
                   outcome |-> "returned",
                   value |-> get_unattached_volumes(aws_ebs, aws_faults),
                   use_api |-> FALSE,
                   faults |-> aws_faults,
                   calls |-> <<EBSUnattachedListSite>>]
    /\ UNCHANGED <<threads, pricing_ret, aws_faults, clock, ebs_scanner, ebs_price_cache,
                   ec2_vars, rds_vars, s3_vars>>

\* the operation get_unattached_volumes called on its own
call_get_unattached_volumes ==
    /\ Constructed(ebs_scanner)
    /\ ebs_ret' = [op |-> "get_unattached_volumes",
                   outcome |-> "returned",
                   value |-> get_unattached_volumes(aws_ebs, aws_faults),
                   use_api |-> FALSE,
                   faults |-> aws_faults,
                   calls |-> <<EBSUnattachedListSite>>]
    /\ UNCHANGED <<threads, pricing_ret, aws_faults, clock, aws_ebs, ebs_scanner, ebs_price_cache,
                   ec2_vars, rds_vars, s3_vars>>

\* the operation get_low_io_volumes called on its own
call_get_low_io_volumes ==
    /\ Constructed(ebs_scanner)
    /\ LET r == get_low_io_volumes(ebs_scanner, aws_ebs, aws_faults)
       IN  /\ ebs_ret' = [op |-> "get_low_io_volumes",
                          outcome |-> "returned",
                          value |-> r.value,
                          use_api |-> FALSE,
                          faults |-> aws_faults,
                          calls |-> r.calls]
           /\ UNCHANGED <<threads, pricing_ret, aws_faults, clock, aws_ebs, ebs_scanner, ebs_price_cache,
                          ec2_vars, rds_vars, s3_vars>>

InitEBSLists ==
    /\ aws_ebs \in EBSFleets
    /\ aws_faults \in FaultPlans(EBSSites(aws_ebs), {})
    /\ clock = 0
    /\ threads = NoThreads
    /\ pricing_ret = NoReturn
    /\ \E t \in IoThresholds :
          ebs_scanner = [region |-> "us-east-1", days |-> 14, io_threshold |-> t,
                         unattached_volumes |-> <<>>, low_io_volumes |-> <<>>]
    /\ ebs_price_cache = << >>
    /\ ebs_ret = NoReturn
    /\ NoEC2 /\ NoRDS /\ NoS3

NextEBSLists == call_get_unattached_volumes \/ call_get_low_io_volumes \/ provider_recovers

SpecEBSLists == InitEBSLists /\ [][NextEBSLists]_vars

\* the operation: replaces both finding lists, costs the unattached list, the
\* low-I/O list and the low-I/O-only list in that order, returns the result dict
analyze_ebs_volumes ==
    /\ Constructed(ebs_scanner)
    /\ \E use_pricing_api \in BOOLEAN :
       \E unattached_volumes \in {get_unattached_volumes(aws_ebs, aws_faults)} :
       \E low \in {get_low_io_volumes(ebs_scanner, aws_ebs, aws_faults)} :
       \E p1 \in {cost_pass(ebs_scanner, unattached_volumes, 1, 1, use_pricing_api, aws_faults,
                            [costs |-> <<>>, cache |-> ebs_price_cache,
                             calls |-> <<EBSUnattachedListSite>> \o low.calls])} :
       \E p2 \in {cost_pass(ebs_scanner, low.value, 1, 2, use_pricing_api, aws_faults,
                            [costs |-> <<>>, cache |-> p1.cache, calls |-> p1.calls])} :
       \E low_io_only_volumes \in
              {low_io_only(low.value, {unattached_volumes[i].VolumeId :
                                          i \in 1..Len(unattached_volumes)})} :
       \E p3 \in {cost_pass(ebs_scanner, low_io_only_volumes, 1, 3, use_pricing_api, aws_faults,
                            [costs |-> <<>>, cache |-> p2.cache, calls |-> p2.calls])} :
           /\ ebs_scanner' = [ebs_scanner EXCEPT !.unattached_volumes = unattached_volumes,
                                                 !.low_io_volumes = low.value]
           /\ ebs_price_cache' = p3.cache
           /\ ebs_ret' = [op |-> "analyze_ebs_volumes",
                          outcome |-> "returned",
                          value |-> ebs_result(unattached_volumes, low.value, p1, p2, p3),
                          use_api |-> use_pricing_api,
                          faults |-> aws_faults,
                          calls |-> p3.calls,
                          costs |-> <<p1.costs, p2.costs, p3.costs>>]
           /\ UNCHANGED <<threads, pricing_ret, aws_faults, clock, aws_ebs, ec2_vars, rds_vars, s3_vars>>

\* the volumes of the scans that are costed: unattached and without I/O, attached
\* with low I/O, unattached and busy (the profiles that end up in a finding list)
EBSCostProfiles ==
    {p \in EBSProfiles : p.VolumeType # "xx1" /\ p.read_ops # <<50>>}

EBSCostFleets == UNION {[1..n -> EBSCostProfiles] : n \in 0..MaxResources}

\* every failure of a price lookup has the same effect on get_ebs_price_per_gb, so a
\* plan carries one kind of it
EBSFaultPlans(fleet) ==
    FaultPlansUpTo({[site |-> s, err |-> e] : s \in EBSSites(fleet), e \in ErrorKinds}
                   \cup {[site |-> s, err |-> ClientError] : s \in EBSPricingSites(fleet)},
                   MaxFaults)

InitEBS ==
    /\ aws_ebs \in EBSCostFleets
    /\ aws_faults \in EBSFaultPlans(aws_ebs)
    /\ clock = 0
    /\ threads = NoThreads
    /\ pricing_ret = NoReturn
    /\ ebs_scanner = [region |-> "us-east-1", days |-> 14, io_threshold |-> 100,
                      unattached_volumes |-> <<>>, low_io_volumes |-> <<>>]
    /\ ebs_price_cache = << >>
    /\ ebs_ret = NoReturn
    /\ NoEC2 /\ NoRDS /\ NoS3

NextEBS == analyze_ebs_volumes \/ provider_recovers

SpecEBS == InitEBS /\ [][NextEBS]_vars

----------------------------------------------------------------------------
(* Operations and specification: S3Scanner *)

\* the operation: resets both lists, scans, returns the unused buckets
analyze_s3_buckets ==
    /\ Constructed(s3_scanner)
    /\ LET r == s3_analyze(s3_scanner, aws_s3, aws_faults)
       IN  /\ s3_scanner' = [s3_scanner EXCEPT !.unused_buckets = r.unused,
                                                !.buckets_without_metrics = r.without_metrics]
           /\ s3_ret' = [op |-> "analyze_s3_buckets",
                         outcome |-> "returned",
                         value |-> r.unused,
                         use_api |-> FALSE,
                         faults |-> aws_faults,
                         calls |-> r.calls]
           /\ UNCHANGED <<threads, pricing_ret, aws_faults, clock, aws_s3, ec2_vars, rds_vars, ebs_vars>>

\* the operation get_all_buckets called on its own
call_get_all_buckets ==
    /\ Constructed(s3_scanner)
    /\ s3_ret' = [op |-> "get_all_buckets",
                  outcome |-> "returned",
                  value |-> get_all_buckets(aws_s3, aws_faults),
                  use_api |-> FALSE,
                  faults |-> aws_faults,
                  calls |-> <<S3ListSite>> \o
                            (IF FaultAt(aws_faults, S3ListSite) = "ok"
                             THEN [k \in 1..Len(aws_s3) |-> S3LocationSite(BucketNames[k])]
                             ELSE <<>>)]
    /\ UNCHANGED <<threads, pricing_ret, aws_faults, clock, aws_s3, s3_scanner, ec2_vars, rds_vars, ebs_vars>>

\* the operation get_scan_summary of the S3 scanner
s3_get_scan_summary ==
    /\ Constructed(s3_scanner)
    /\ s3_ret' = [op |-> "get_scan_summary",
                  outcome |-> "returned",
                  value |-> s3_scan_summary(s3_scanner, clock),
                  use_api |-> FALSE,
                  faults |-> {},
                  calls |-> <<>>]
    /\ UNCHANGED <<threads, pricing_ret, aws_faults, clock, aws_s3, s3_scanner, ec2_vars, rds_vars, ebs_vars>>

InitS3 ==
    /\ aws_s3 \in S3Fleets
    /\ aws_faults \in FaultPlans(S3Sites(aws_s3), {})
    /\ clock = 0
    /\ threads = NoThreads
    /\ pricing_ret = NoReturn
    /\ \E t \in RequestThresholds :
          s3_scanner = [region |-> "us-east-1", days |-> 30, request_threshold |-> t,
                        unused_buckets |-> <<>>, buckets_without_metrics |-> <<>>]
    /\ s3_ret = NoReturn
    /\ NoEC2 /\ NoRDS /\ NoEBS

NextS3 ==
    analyze_s3_buckets \/ call_get_all_buckets \/ s3_get_scan_summary \/ provider_recovers

SpecS3 == InitS3 /\ [][NextS3]_vars

----------------------------------------------------------------------------
(* Operations and specification: the pricing modules called directly *)

\* the one Price List call a pricing function makes, and how a call may end
PricingSite == <<"get_products", "", 0>>

LookupOutcomes == {"ok", NotFound, ClientError, BotoCoreError, UnexpectedError}

PricingFault(o) == IF o = "ok" THEN {} ELSE {[site |-> PricingSite, err |-> o]}

PricingRegion == "us-east-1"

\* a process calls the functions of one pricing module (each scanner imports its own)
PricingModuleInUse(module) ==
    IF pricing_ret = NoReturn THEN TRUE ELSE pricing_ret.module = module

\* get_pricing_client keeps the one client it constructed (lru_cache): construction
\* can fail only while the module has no client yet
ClientExists ==
    IF pricing_ret = NoReturn THEN FALSE ELSE pricing_ret.client

ResolverOutcomes ==
    IF ClientExists THEN LookupOutcomes ELSE LookupOutcomes \cup {ConstructionError}

\* what a call of a module-level pricing function leaves behind
ResolverReturn(module, op, args, use_api, o, r) ==
    [module |-> module, op |-> op,
     outcome |-> IF r.raised THEN "raised" ELSE "returned",
     value |-> r.price,
     use_api |-> use_api,
     faults |-> PricingFault(o),
     calls |-> IF r.called THEN <<PricingSite>> ELSE <<>>,
     args |-> args,
     client |-> ClientExists \/ (use_api /\ o # ConstructionError)]

\* what a direct call of a pricing client's lookup leaves behind
LookupReturn(module, op, key, o, r) ==
    [module |-> module, op |-> op,
     outcome |-> IF r.raised THEN "raised" ELSE "returned",
     value |-> r.price,
     use_api |-> TRUE,
     faults |-> PricingFault(o),
     calls |-> IF r.called THEN <<PricingSite>> ELSE <<>>,
     key |-> key,
     client |-> TRUE]

\* AWSEC2PricingClient.get_ec2_price_per_hour called on the module's client
lookup_ec2_price ==
    /\ PricingModuleInUse("aws_ec2_pricing")
    /\ \E instance_type \in InstanceTypes, o \in LookupOutcomes :
       \E r \in {client_get_ec2_price_per_hour(ec2_price_cache, instance_type,
                                               PricingRegion, PricingSite, PricingFault(o))} :
          /\ ec2_price_cache' = r.cache
          /\ pricing_ret' = LookupReturn("aws_ec2_pricing", "client.get_ec2_price_per_hour",
                                <<"ec2", instance_type, PricingRegion, "Linux">>, o, r)
    /\ UNCHANGED <<threads, aws_faults, clock, aws_ec2, ec2_scanner, ec2_ret,
                   rds_vars, ebs_vars, s3_vars>>

\* AWSRDSPricingClient.get_rds_price_per_hour called on the module's client
lookup_rds_price ==
    /\ PricingModuleInUse("aws_rds_pricing")
    /\ \E db_instance_class \in InstanceClasses, o \in LookupOutcomes :
       \E deployment_option \in {"Single-AZ", "Multi-AZ"} :
       \E r \in {client_get_rds_price_per_hour(rds_price_cache, db_instance_class,
                     PricingRegion, deployment_option, PricingSite, PricingFault(o))} :
          /\ rds_price_cache' = r.cache
          /\ pricing_ret' = LookupReturn("aws_rds_pricing", "client.get_rds_price_per_hour",
                                <<"rds_postgres", db_instance_class, PricingRegion,
                                  deployment_option>>, o, r)
    /\ UNCHANGED <<threads, aws_faults, clock, aws_rds, aws_snapshots, rds_scanner, rds_ret,
                   ec2_vars, ebs_vars, s3_vars>>

\* the volume types priced directly: two the catalogue knows, one it does not
PricedVolumeTypes == {"gp2", "gp3", "xx1"}

\* AWSPricingClient.get_ebs_price_per_gb called on the module's client
lookup_ebs_price ==
    /\ PricingModuleInUse("aws_ebs_pricing")
    /\ \E volume_type \in PricedVolumeTypes, o \in LookupOutcomes :
       \E r \in {client_get_ebs_price_per_gb(ebs_price_cache, volume_type,
                                             PricingRegion, PricingSite, PricingFault(o))} :
          /\ ebs_price_cache' = r.cache
          /\ pricing_ret' = LookupReturn("aws_ebs_pricing", "client.get_ebs_price_per_gb",
                                <<"ebs", volume_type, PricingRegion>>, o, r)
    /\ UNCHANGED <<threads, aws_faults, clock, aws_ebs, ebs_scanner, ebs_ret,
                   ec2_vars, rds_vars, s3_vars>>

\* get_ec2_price_per_hour of aws_ec2_pricing
resolve_ec2_price ==
    /\ PricingModuleInUse("aws_ec2_pricing")
    /\ \E instance_type \in InstanceTypes, use_api \in BOOLEAN, o \in ResolverOutcomes :
       \E r \in {get_ec2_price_per_hour(ec2_price_cache, instance_type, PricingRegion,
                                        use_api, PricingSite, PricingFault(o))} :
          /\ ec2_price_cache' = r.cache
          /\ pricing_ret' = ResolverReturn("aws_ec2_pricing", "get_ec2_price_per_hour",
                                [instance_type |-> instance_type], use_api, o, r)
    /\ UNCHANGED <<threads, aws_faults, clock, aws_ec2, ec2_scanner, ec2_ret,
                   rds_vars, ebs_vars, s3_vars>>

\* get_rds_price_per_hour of aws_rds_pricing
resolve_rds_price ==
    /\ PricingModuleInUse("aws_rds_pricing")
    /\ \E db_instance_class \in InstanceClasses, multi_az \in BOOLEAN :
       \E use_api \in BOOLEAN, o \in ResolverOutcomes :
       \E r \in {get_rds_price_per_hour(rds_price_cache, db_instance_class, PricingRegion,
                                        multi_az, use_api, PricingSite, PricingFault(o))} :
          /\ rds_price_cache' = r.cache
          /\ pricing_ret' = ResolverReturn("aws_rds_pricing", "get_rds_price_per_hour",
                                [db_instance_class |-> db_instance_class,
                                 multi_az |-> multi_az], use_api, o, r)
    /\ UNCHANGED <<threads, aws_faults, clock, aws_rds, aws_snapshots, rds_scanner, rds_ret,
                   ec2_vars, ebs_vars, s3_vars>>

\* get_ebs_cost_per_gb of aws_ebs_pricing
resolve_ebs_price ==
    /\ PricingModuleInUse("aws_ebs_pricing")
    /\ \E volume_type \in PricedVolumeTypes, use_api \in BOOLEAN, o \in ResolverOutcomes :
       \E r \in {get_ebs_cost_per_gb(ebs_price_cache, volume_type, PricingRegion,
                                     use_api, PricingSite, PricingFault(o))} :
          /\ ebs_price_cache' = r.cache
          /\ pricing_ret' = ResolverReturn("aws_ebs_pricing", "get_ebs_cost_per_gb",
                                [volume_type |-> volume_type], use_api, o, r)
    /\ UNCHANGED <<threads, aws_faults, clock, aws_ebs, ebs_scanner, ebs_ret,
                   ec2_vars, rds_vars, s3_vars>>

\* get_storage_price_per_gb of aws_s3_pricing: a table lookup, no client
resolve_s3_price ==
    /\ PricingModuleInUse("aws_s3_pricing")
    /\ \E storage_class \in StorageClasses :
          pricing_ret' = ResolverReturn("aws_s3_pricing", "get_storage_price_per_gb",
                             [storage_class |-> storage_class], FALSE, "ok",
                             [price |-> get_storage_price_per_gb(storage_class),
                              called |-> FALSE, raised |-> FALSE])
    /\ UNCHANGED <<threads, aws_faults, clock, ec2_vars, rds_vars, ebs_vars, s3_vars>>

\* what a call of a calculate_* function leaves behind
CostReturn(module, op, args, use_api, o, r) ==
    [module |-> module, op |-> op,
     outcome |-> IF r.raised THEN "raised" ELSE "returned",
     value |-> r.cost,
     use_api |-> use_api,
     faults |-> PricingFault(o),
     calls |-> IF r.called THEN <<PricingSite>> ELSE <<>>,
     args |-> args,
     client |-> ClientExists \/ (use_api /\ o # ConstructionError)]

\* calculate_ec2_monthly_cost
cost_ec2 ==
    /\ PricingModuleInUse("aws_ec2_pricing")
    /\ \E instance_type \in InstanceTypes, use_api \in BOOLEAN, o \in ResolverOutcomes :
       \E r \in {calculate_ec2_monthly_cost(ec2_price_cache, instance_type, PricingRegion,
                                            use_api, PricingSite, PricingFault(o))} :
          /\ ec2_price_cache' = r.cache
          /\ pricing_ret' = CostReturn("aws_ec2_pricing", "calculate_ec2_monthly_cost",
                                [instance_type |-> instance_type], use_api, o, r)
    /\ UNCHANGED <<threads, aws_faults, clock, aws_ec2, ec2_scanner, ec2_ret,
                   rds_vars, ebs_vars, s3_vars>>

\* the volumes costed directly: a plain one, one with IOPS and throughput above the
\* free allowances, one billed for all its IOPS, and one of a type no table knows
CostedVolumes ==
    {[volume_type |-> "gp2", size_gb |-> 100, iops |-> None, throughput_mbps |-> None],
     [volume_type |-> "gp3", size_gb |-> 100, iops |-> Some(5000), throughput_mbps |-> Some(500)],
     [volume_type |-> "io1", size_gb |-> 100, iops |-> Some(1000), throughput_mbps |-> None],
     [volume_type |-> "xx1", size_gb |-> 8, iops |-> None, throughput_mbps |-> None]}

\* calculate_ebs_monthly_cost
cost_ebs ==
    /\ PricingModuleInUse("aws_ebs_pricing")
    /\ \E volume \in CostedVolumes, use_api \in BOOLEAN, o \in ResolverOutcomes :
       \E r \in {calculate_ebs_monthly_cost(ebs_price_cache, volume.volume_type,
                       volume.size_gb, PricingRegion, volume.iops, volume.throughput_mbps,
                       use_api, PricingSite, PricingFault(o))} :
          /\ ebs_price_cache' = r.cache
          /\ pricing_ret' = CostReturn("aws_ebs_pricing", "calculate_ebs_monthly_cost",
                                volume, use_api, o, r)
    /\ UNCHANGED <<threads, aws_faults, clock, aws_ebs, ebs_scanner, ebs_ret,
                   ec2_vars, rds_vars, s3_vars>>

AllocatedStorages == {0, 20}

\* calculate_rds_monthly_cost
cost_rds ==
    /\ PricingModuleInUse("aws_rds_pricing")
    /\ \E db_instance_class \in InstanceClasses, multi_az \in BOOLEAN :
       \E allocated_storage_gb \in AllocatedStorages, storage_type \in StorageTypes :
       \E use_api \in BOOLEAN, o \in ResolverOutcomes :
       \E r \in {calculate_rds_monthly_cost(rds_price_cache, db_instance_class,
                       PricingRegion, multi_az, allocated_storage_gb, storage_type,
                       use_api, PricingSite, PricingFault(o))} :
          /\ rds_price_cache' = r.cache
          /\ pricing_ret' = CostReturn("aws_rds_pricing", "calculate_rds_monthly_cost",
                                [db_instance_class |-> db_instance_class,
                                 multi_az |-> multi_az,
                                 allocated_storage_gb |-> allocated_storage_gb,
                                 storage_type |-> storage_type], use_api, o, r)
    /\ UNCHANGED <<threads, aws_faults, clock, aws_rds, aws_snapshots, rds_scanner, rds_ret,
                   ec2_vars, ebs_vars, s3_vars>>

\* calculate_snapshot_monthly_cost: a table price, no client
cost_snapshot ==
    /\ PricingModuleInUse("aws_rds_pricing")
    /\ \E snapshot_size_gb \in AllocatedStorages \cup {1} :
          pricing_ret' = CostReturn("aws_rds_pricing", "calculate_snapshot_monthly_cost",
                             [snapshot_size_gb |-> snapshot_size_gb], FALSE, "ok",
                             [cost |-> calculate_snapshot_monthly_cost(snapshot_size_gb),
                              called |-> FALSE, raised |-> FALSE])
    /\ UNCHANGED <<threads, aws_faults, clock, ec2_vars, rds_vars, ebs_vars, s3_vars>>

\* bucket sizes in MiB: empty, below a cent, a GB and more
BucketSizes == {0, 1, 1024, 5000}

\* calculate_bucket_monthly_cost as the scanner calls it (size and object count)
cost_bucket ==
    /\ PricingModuleInUse("aws_s3_pricing")
    /\ \E size_bytes \in BucketSizes, object_count \in {0, 7} :
          pricing_ret' = CostReturn("aws_s3_pricing", "calculate_bucket_monthly_cost",
                             [size_bytes |-> size_bytes, object_count |-> object_count],
                             FALSE, "ok",
                             [cost |-> calculate_bucket_monthly_cost(size_bytes, object_count),
                              called |-> FALSE, raised |-> FALSE])
    /\ UNCHANGED <<threads, aws_faults, clock, ec2_vars, rds_vars, ebs_vars, s3_vars>>

InitPricing ==
    /\ aws_faults = {}
    /\ clock = 0
    /\ threads = NoThreads
    /\ pricing_ret = NoReturn
    /\ NoEC2 /\ NoRDS /\ NoEBS /\ NoS3

NextPricing ==
    \/ lookup_ec2_price \/ lookup_rds_price \/ lookup_ebs_price
    \/ resolve_ec2_price \/ resolve_rds_price \/ resolve_ebs_price \/ resolve_s3_price
    \/ cost_ec2 \/ cost_ebs \/ cost_rds \/ cost_snapshot \/ cost_bucket

SpecPricing == InitPricing /\ [][NextPricing]_vars

----------------------------------------------------------------------------
(* Specification: calculate_ebs_monthly_cost as a function of its arguments *)

\* volume types with and without an IOPS charge and one no table knows; IOPS and
\* throughput absent, zero, at the free allowance, just above it and well above it
CostedVolumeTypes == {"gp2", "gp3", "io1", "io2", "st1", "xx1"}

CostedSizes == {1, 100}

CostedIops == {None, Some(0), Some(100), Some(3000), Some(3001), Some(5000)}

CostedThroughputs == {None, Some(0), Some(125), Some(126), Some(500)}

\* the arguments of a call that has not been made yet
Arguments(module, args) ==
    [module |-> module, op |-> "arguments", args |-> args, client |-> FALSE]

InitEBSCost ==
    /\ aws_faults = {}
    /\ clock = 0
    /\ threads = NoThreads
    /\ NoEC2 /\ NoRDS /\ NoEBS /\ NoS3
    /\ \E volume_type \in CostedVolumeTypes, size_gb \in CostedSizes :
       \E iops \in CostedIops, throughput_mbps \in CostedThroughputs :
          pricing_ret = Arguments("aws_ebs_pricing",
                            [volume_type |-> volume_type, size_gb |-> size_gb,
                             iops |-> iops, throughput_mbps |-> throughput_mbps])

\* calculate_ebs_monthly_cost(..., use_api=False)
cost_ebs_offline ==
    /\ pricing_ret.op = "arguments"
    /\ \E r \in {calculate_ebs_monthly_cost(ebs_price_cache, pricing_ret.args.volume_type,
                       pricing_ret.args.size_gb, PricingRegion, pricing_ret.args.iops,
                       pricing_ret.args.throughput_mbps, FALSE, PricingSite, {})} :
          /\ ebs_price_cache' = r.cache
          /\ pricing_ret' = CostReturn("aws_ebs_pricing", "calculate_ebs_monthly_cost",
                                pricing_ret.args, FALSE, "ok", r)
    /\ UNCHANGED <<threads, aws_faults, clock, aws_ebs, ebs_scanner, ebs_ret,
                   ec2_vars, rds_vars, s3_vars>>

NextEBSCost == cost_ebs_offline

SpecEBSCost == InitEBSCost /\ [][NextEBSCost]_vars

----------------------------------------------------------------------------
(* A process that constructs one of the scanners and calls its operations *)

\* the resources of these scans: for every scanner one resource that ends up in a
\* finding list and one that does not (or, for a snapshot, not yet)
ScanEC2Profiles == {p \in EC2Profiles : p[1] = "t3.micro" /\ p[2] # <<>>}
ScanRDSProfiles ==
    {p \in RDSProfiles : p.db_instance_class = "db.t4g.micro" /\ p.status = "available"}
ScanSnapshotProfiles == {p \in SnapshotProfiles : p.age_hours \in {Some(47), Some(49)}}
ScanEBSProfiles == {p \in EBSProfiles : p.read_ops \in {<<>>, <<40>>}}
ScanS3Profiles == {p \in S3Profiles : p.requests \in {<<0, 0>>, <<>>}}

ScanFleets(profiles) == UNION {[1..n -> profiles] : n \in 0..MaxResources}

InitScanEC2 ==
    /\ aws_ec2 \in ScanFleets(ScanEC2Profiles)
    /\ aws_faults \in FaultPlans(EC2Sites(aws_ec2), EC2PricingSites(aws_ec2))
    /\ clock = 0
    /\ threads = NoThreads
    /\ pricing_ret = NoReturn
    /\ ec2_scanner = [region |-> "us-east-1", days |-> 14, idle_threshold |-> 500,
                      idle_instances |-> <<>>]
    /\ ec2_price_cache = << >>
    /\ ec2_ret = NoReturn
    /\ NoRDS /\ NoEBS /\ NoS3

InitScanRDS ==
    /\ \/ aws_rds \in ScanFleets(ScanRDSProfiles) /\ aws_snapshots = <<>>
       \/ /\ aws_rds = <<>>
          /\ aws_snapshots \in ScanFleets({StoredSnapshot(p) : p \in ScanSnapshotProfiles})
    /\ aws_faults \in FaultPlans(RDSSites(aws_rds) \cup {SnapshotListSite},
                                 RDSPricingSites(aws_rds))
    /\ clock = 0
    /\ threads = NoThreads
    /\ pricing_ret = NoReturn
    /\ rds_scanner = [region |-> "us-east-1", days |-> 14, cpu_threshold |-> 500,
                      connections_threshold |-> 100, snapshot_age_days |-> 2,
                      idle_instances |-> <<>>, old_snapshots |-> <<>>]
    /\ rds_price_cache = << >>
    /\ rds_ret = NoReturn
    /\ NoEC2 /\ NoEBS /\ NoS3

InitScanEBS ==
    /\ aws_ebs \in ScanFleets(ScanEBSProfiles)
    /\ aws_faults \in EBSFaultPlans(aws_ebs)
    /\ clock = 0
    /\ threads = NoThreads
    /\ pricing_ret = NoReturn
    /\ ebs_scanner = [region |-> "us-east-1", days |-> 14, io_threshold |-> 100,
                      unattached_volumes |-> <<>>, low_io_volumes |-> <<>>]
    /\ ebs_price_cache = << >>
    /\ ebs_ret = NoReturn
    /\ NoEC2 /\ NoRDS /\ NoS3

InitScanS3 ==
    /\ aws_s3 \in ScanFleets(ScanS3Profiles)
    /\ aws_faults \in FaultPlans(S3Sites(aws_s3), {})
    /\ clock = 0
    /\ threads = NoThreads
    /\ pricing_ret = NoReturn
    /\ s3_scanner = [region |-> "us-east-1", days |-> 30, request_threshold |-> 10,
                     unused_buckets |-> <<>>, buckets_without_metrics |-> <<>>]
    /\ s3_ret = NoReturn
    /\ NoEC2 /\ NoRDS /\ NoEBS

\* the operation get_scan_summary of the EC2 scanner
ec2_get_scan_summary ==
    /\ Constructed(ec2_scanner)
    /\ ec2_ret' = [op |-> "get_scan_summary",
                   outcome |-> "returned",
                   value |-> ec2_scan_summary(ec2_scanner, clock),
                   use_api |-> FALSE,
                   faults |-> {},
                   calls |-> <<>>]
    /\ UNCHANGED <<threads, pricing_ret, aws_faults, clock, aws_ec2, ec2_scanner, ec2_price_cache,
                   rds_vars, ebs_vars, s3_vars>>

\* a summary that hands its lists over and empties them (not the source's)
rds_get_scan_summary_emptying ==
    /\ Constructed(rds_scanner)
    /\ rds_ret' = [op |-> "get_scan_summary",
                   outcome |-> "returned",
                   value |-> rds_scan_summary(rds_scanner, clock),
                   use_api |-> FALSE,
                   faults |-> {},
                   calls |-> <<>>]
    /\ rds_scanner' = [rds_scanner EXCEPT !.idle_instances = <<>>,
                                          !.old_snapshots = <<>>]
    /\ UNCHANGED <<threads, pricing_ret, aws_faults, clock, aws_rds, aws_snapshots,
                   rds_price_cache, ec2_vars, ebs_vars, s3_vars>>

\* the operation get_scan_summary of the RDS scanner
rds_get_scan_summary ==
    /\ Constructed(rds_scanner)
    /\ rds_ret' = [op |-> "get_scan_summary",
                   outcome |-> "returned",
                   value |-> rds_scan_summary(rds_scanner, clock),
                   use_api |-> FALSE,
                   faults |-> {},
                   calls |-> <<>>]
    /\ UNCHANGED <<threads, pricing_ret, aws_faults, clock, aws_rds, aws_snapshots, rds_scanner,
                   rds_price_cache, ec2_vars, ebs_vars, s3_vars>>

\* main.py: the process that verifies the credentials and runs the EC2 scan
STSSite == <<"get_caller_identity", "", 0>>

InitMain ==
    /\ aws_ec2 \in ScanFleets(ScanEC2Profiles)
    /\ aws_faults \in FaultPlans(EC2Sites(aws_ec2) \cup {STSSite}, EC2PricingSites(aws_ec2))
    /\ clock = 0
    /\ threads = NoThreads
    /\ pricing_ret = NoReturn
    /\ ec2_scanner = NotConstructed
    /\ ec2_price_cache = << >>
    /\ ec2_ret = NoReturn
    /\ NoRDS /\ NoEBS /\ NoS3

\* main(): exit code 1 when the credentials cannot be verified or the scan raises,
\* else 0; the scanner it constructs and the price cache end with the process
main ==
    /\ ~Constructed(ec2_scanner) /\ ~Constructed(rds_scanner)
    /\ ~Constructed(ebs_scanner) /\ ~Constructed(s3_scanner)
    /\ pricing_ret = NoReturn
    /\ \E scanner \in {[region |-> "us-east-1", days |-> 7, idle_threshold |-> 500,
                         idle_instances |-> <<>>]} :
       \E r \in {ec2_analyze(scanner, << >>, aws_ec2, TRUE, aws_faults)} :
          ec2_ret' =
             IF FaultAt(aws_faults, STSSite) # "ok"
             THEN [op |-> "main", outcome |-> "returned", value |-> 1,
                   use_api |-> TRUE, faults |-> aws_faults, calls |-> <<STSSite>>,
                   ec2 |-> None]
             ELSE [op |-> "main", outcome |-> "returned",
                   value |-> IF r.raised THEN 1 ELSE 0,
                   use_api |-> TRUE, faults |-> aws_faults,
                   calls |-> <<STSSite>> \o r.calls,
                   ec2 |-> IF r.raised THEN None
                           ELSE Some(ec2_scan_summary(
                                    [scanner EXCEPT !.idle_instances = r.idle], clock))]
    /\ UNCHANGED <<threads, pricing_ret, aws_faults, clock, aws_ec2, ec2_scanner, ec2_price_cache,
                   rds_vars, ebs_vars, s3_vars>>

InitScanners == InitScanEC2 \/ InitScanRDS \/ InitScanEBS \/ InitScanS3 \/ InitMain

\* a caller assigns the public finding lists of a scanner it has just constructed
StaleFinding(key, id) == [k \in {key, "estimated_monthly_cost"} |->
                            IF k = key THEN id ELSE 0]

set_ec2_findings ==
    /\ Constructed(ec2_scanner)
    /\ ec2_ret = NoReturn
    /\ ec2_scanner.idle_instances = <<>>
    /\ ec2_scanner' = [ec2_scanner EXCEPT
                          !.idle_instances = <<StaleFinding("instance_id", "i-old123")>>]
    /\ UNCHANGED <<threads, pricing_ret, aws_faults, clock, aws_ec2, ec2_price_cache, ec2_ret,
                   rds_vars, ebs_vars, s3_vars>>

set_rds_findings ==
    /\ Constructed(rds_scanner)
    /\ rds_ret = NoReturn
    /\ rds_scanner.idle_instances = <<>>
    /\ rds_scanner' = [rds_scanner EXCEPT
                          !.idle_instances = <<StaleFinding("db_instance_id", "db-old")>>,
                          !.old_snapshots = <<StaleFinding("snapshot_id", "snap-old")>>]
    /\ UNCHANGED <<threads, pricing_ret, aws_faults, clock, aws_rds, aws_snapshots, rds_price_cache,
                   rds_ret, ec2_vars, ebs_vars, s3_vars>>

set_ebs_findings ==
    /\ Constructed(ebs_scanner)
    /\ ebs_ret = NoReturn
    /\ ebs_scanner.unattached_volumes = <<>>
    /\ ebs_scanner' = [ebs_scanner EXCEPT
                          !.unattached_volumes = <<StaleFinding("VolumeId", "vol-old")>>,
                          !.low_io_volumes = <<StaleFinding("VolumeId", "vol-old")>>]
    /\ UNCHANGED <<threads, pricing_ret, aws_faults, clock, aws_ebs, ebs_price_cache, ebs_ret,
                   ec2_vars, rds_vars, s3_vars>>

set_s3_findings ==
    /\ Constructed(s3_scanner)
    /\ s3_ret = NoReturn
    /\ s3_scanner.unused_buckets = <<>>
    /\ s3_scanner' = [s3_scanner EXCEPT
                         !.unused_buckets = <<StaleFinding("bucket_name", "old-unused")>>,
                         !.buckets_without_metrics =
                             <<StaleFinding("bucket_name", "old-no-metrics")>>]
    /\ UNCHANGED <<threads, pricing_ret, aws_faults, clock, aws_s3, s3_ret,
                   ec2_vars, rds_vars, ebs_vars>>

\* the wall clock moves on while find_old_snapshots runs
NextScanners ==
    \/ analyze_ec2_instances \/ call_get_running_ec2_instances
    \/ analyze_rds_instances \/ call_get_rds_instances
    \/ find_old_snapshots \/ call_get_manual_snapshots
    \/ analyze_ebs_volumes \/ call_get_unattached_volumes \/ call_get_low_io_volumes
    \/ analyze_s3_buckets \/ call_get_all_buckets \/ s3_get_scan_summary
    \/ set_ec2_findings \/ set_rds_findings \/ set_ebs_findings \/ set_s3_findings
    \/ ec2_get_scan_summary \/ rds_get_scan_summary
    \/ main
    \/ provider_recovers

SpecScanners == InitScanners /\ [][NextScanners]_vars


----------------------------------------------------------------------------
(* A process that constructs a scanner from a configuration and scans with it *)

\* the regions a scanner is constructed with: one that exists, and a well-formed
\* name no region has
Regions == {"us-east-1", "mars-east-1"}

\* the Python type of the idle_threshold a caller passes: 5.0, or the string "5.0"
ThresholdTypes == {"float", "str"}

\* the provider has no endpoint for a region that does not exist: every call of a
\* client built for it fails with EndpointConnectionError, a BotoCoreError.  The
\* price list client is built for its own region and is not affected
UnreachableEndpoint(sites) == {[site |-> s, err |-> BotoCoreError] : s \in sites}

\* what __init__ was called with, as the outcome of the constructor call
Construction(region, threshold_type) ==
    [op |-> "__init__", outcome |-> "returned", value |-> <<>>, use_api |-> FALSE,
     faults |-> {}, calls |-> <<>>,
     args |-> [region |-> region, threshold_type |-> threshold_type]]

\* the region the process is about to use decides which provider it talks to
RegionOf(sites) == IF aws_faults = UnreachableEndpoint(sites) /\ aws_faults # {}
                   THEN "mars-east-1" ELSE "us-east-1"

\* EC2Scanner.__init__: stores its arguments and builds two clients; boto3 builds a
\* client for any well-formed region name without a call to the provider
construct_ec2_scanner ==
    /\ ~Constructed(ec2_scanner) /\ ~Constructed(ebs_scanner)
    /\ aws_ebs = <<>>
    /\ ec2_ret = NoReturn
    /\ \E threshold_type \in ThresholdTypes :
          /\ ec2_scanner' = [region |-> RegionOf(EC2Sites(aws_ec2)), days |-> 14,
                             idle_threshold |-> 500,
                             idle_threshold_type |-> threshold_type,
                             idle_instances |-> <<>>]
          /\ ec2_ret' = Construction(RegionOf(EC2Sites(aws_ec2)), threshold_type)
    /\ UNCHANGED <<threads, pricing_ret, aws_faults, clock, aws_ec2, ec2_price_cache,
                   rds_vars, ebs_vars, s3_vars>>

\* EBSScanner.__init__
construct_ebs_scanner ==
    /\ ~Constructed(ec2_scanner) /\ ~Constructed(ebs_scanner)
    /\ aws_ec2 = <<>>
    /\ ebs_ret = NoReturn
    /\ ebs_scanner' = [region |-> RegionOf(EBSSites(aws_ebs)), days |-> 14,
                       io_threshold |-> 100,
                       unattached_volumes |-> <<>>, low_io_volumes |-> <<>>]
    /\ ebs_ret' = Construction(RegionOf(EBSSites(aws_ebs)), "int")
    /\ UNCHANGED <<threads, pricing_ret, aws_faults, clock, aws_ebs, ebs_price_cache,
                   ec2_vars, rds_vars, s3_vars>>

\* the loop of analyze_ec2_instances when self.idle_threshold is a str: the first
\* average that is not None is compared with it, and float <= str raises TypeError
RECURSIVE ec2_analyze_loop_str_threshold(_, _, _, _, _)
ec2_analyze_loop_str_threshold(fleet, instances, k, faults, st) ==
    IF k > Len(instances) \/ st.raised THEN st
    ELSE
    LET instance == instances[k]
        cpu_data == get_ec2_cpu_utilization(fleet, instance.instance_id, faults)
        st1 == [st EXCEPT !.calls = Append(@, EC2MetricSite(instance.instance_id))]
    IN  IF cpu_data.raised THEN [st1 EXCEPT !.raised = TRUE]
        ELSE IF calculate_average_cpu(cpu_data.value).none
        THEN ec2_analyze_loop_str_threshold(fleet, instances, k + 1, faults, st1)
        ELSE [st1 EXCEPT !.raised = TRUE]

\* EC2Scanner.analyze_ec2_instances on a scanner built with either type of threshold
ec2_analyze_configured(self, cache, fleet, use_api, faults) ==
    IF self.idle_threshold_type = "float"
    THEN ec2_analyze(self, cache, fleet, use_api, faults)
    ELSE LET st0 == [idle |-> <<>>, cache |-> cache, raised |-> FALSE,
                     calls |-> <<EC2ListSite>>]
             listing == get_running_ec2_instances(fleet, faults)
         IN  IF listing.raised THEN [st0 EXCEPT !.raised = TRUE]
             ELSE ec2_analyze_loop_str_threshold(fleet, listing.value, 1, faults, st0)

\* the operation analyze_ec2_instances on a scanner a caller configured
analyze_ec2_instances_configured ==
    /\ Constructed(ec2_scanner)
    /\ \E use_pricing_api \in BOOLEAN :
       \E r \in {ec2_analyze_configured(ec2_scanner, ec2_price_cache, aws_ec2,
                                        use_pricing_api, aws_faults)} :
           /\ ec2_scanner' = [ec2_scanner EXCEPT !.idle_instances = r.idle]
           /\ ec2_price_cache' = r.cache
           /\ ec2_ret' = [op |-> "analyze_ec2_instances",
                          outcome |-> IF r.raised THEN "raised" ELSE "returned",
                          value |-> IF r.raised THEN <<>> ELSE r.idle,
                          use_api |-> use_pricing_api,
                          faults |-> aws_faults,
                          calls |-> r.calls]
    /\ UNCHANGED <<threads, pricing_ret, aws_faults, clock, aws_ec2, rds_vars, ebs_vars, s3_vars>>

\* before a scanner exists: the account, and whether the region that will be asked
\* for exists
InitConstruction ==
    /\ \/ aws_ec2 \in EC2Fleets /\ aws_ebs = <<>>
          /\ aws_faults \in {{}, UnreachableEndpoint(EC2Sites(aws_ec2))}
       \/ aws_ebs \in ScanFleets(ScanEBSProfiles) /\ aws_ec2 = <<>>
          /\ aws_faults \in {{}, UnreachableEndpoint(EBSSites(aws_ebs))}
    /\ clock = 0
    /\ threads = NoThreads
    /\ pricing_ret = NoReturn
    /\ ec2_scanner = NotConstructed /\ ec2_price_cache = << >> /\ ec2_ret = NoReturn
    /\ ebs_scanner = NotConstructed /\ ebs_price_cache = << >> /\ ebs_ret = NoReturn
    /\ NoRDS /\ NoS3

NextConstruction ==
    \/ construct_ec2_scanner \/ analyze_ec2_instances_configured
    \/ construct_ebs_scanner \/ analyze_ebs_volumes

SpecConstruction == InitConstruction /\ [][NextConstruction]_vars

----------------------------------------------------------------------------
(* A process that scans with one scanner and asks it for its summary *)

\* instances with no data, an idle mean and an active mean
SummaryEC2Profiles == {p \in EC2Profiles : p[1] = "t3.micro"}

InitSummaryEC2 ==
    /\ aws_ec2 \in ScanFleets(SummaryEC2Profiles)
    /\ aws_faults \in FaultPlans({EC2ListSite}, {})
    /\ clock = 0
    /\ threads = NoThreads
    /\ pricing_ret = NoReturn
    /\ ec2_scanner = [region |-> "us-east-1", days |-> 14, idle_threshold |-> 500,
                      idle_instances |-> <<>>]
    /\ ec2_price_cache = << >>
    /\ ec2_ret = NoReturn
    /\ NoRDS /\ NoEBS /\ NoS3

\* an account with database instances and manual snapshots
InitSummaryRDS ==
    /\ aws_rds \in ScanFleets(ScanRDSProfiles)
    /\ aws_snapshots \in ScanFleets({StoredSnapshot(p) : p \in ScanSnapshotProfiles})
    /\ Len(aws_rds) + Len(aws_snapshots) <= MaxResources
    /\ aws_faults \in FaultPlans({RDSListSite, SnapshotListSite}, {})
    /\ clock = 0
    /\ threads = NoThreads
    /\ pricing_ret = NoReturn
    /\ rds_scanner = [region |-> "us-east-1", days |-> 14, cpu_threshold |-> 500,
                      connections_threshold |-> 100, snapshot_age_days |-> 2,
                      idle_instances |-> <<>>, old_snapshots |-> <<>>]
    /\ rds_price_cache = << >>
    /\ rds_ret = NoReturn
    /\ NoEC2 /\ NoEBS /\ NoS3

\* buckets that are unused, in use, and without request metrics
SummaryS3Profiles == {p \in S3Profiles : p.requests \in {<<0, 0>>, <<11>>, <<>>}}

InitSummaryS3 ==
    /\ aws_s3 \in ScanFleets(SummaryS3Profiles)
    /\ aws_faults \in FaultPlans({S3ListSite}, {})
    /\ clock = 0
    /\ threads = NoThreads
    /\ pricing_ret = NoReturn
    /\ s3_scanner = [region |-> "us-east-1", days |-> 30, request_threshold |-> 10,
                     unused_buckets |-> <<>>, buckets_without_metrics |-> <<>>]
    /\ s3_ret = NoReturn
    /\ NoEC2 /\ NoRDS /\ NoEBS

InitSummaries == InitSummaryEC2 \/ InitSummaryRDS \/ InitSummaryS3

\* a caller assigns findings that carry no estimated_monthly_cost
set_rds_findings_without_cost ==
    /\ Constructed(rds_scanner)
    /\ rds_ret = NoReturn
    /\ rds_scanner.idle_instances = <<>> /\ rds_scanner.old_snapshots = <<>>
    /\ rds_scanner' = [rds_scanner EXCEPT
                          !.idle_instances = <<[db_instance_id |-> "idle-1"],
                                               [db_instance_id |-> "idle-2"]>>,
                          !.old_snapshots = <<[snapshot_id |-> "old-snap-1"]>>]
    /\ UNCHANGED <<threads, pricing_ret, aws_faults, clock, aws_rds, aws_snapshots, rds_price_cache,
                   rds_ret, ec2_vars, ebs_vars, s3_vars>>

NextSummaries ==
    \/ analyze_ec2_instances \/ ec2_get_scan_summary
    \/ analyze_rds_instances \/ find_old_snapshots \/ rds_get_scan_summary
    \/ analyze_s3_buckets \/ s3_get_scan_summary
    \/ set_rds_findings_without_cost
    \/ provider_recovers

SpecSummaries == InitSummaries /\ [][NextSummaries]_vars
----------------------------------------------------------------------------
(* Specification: the average reducers as functions of a datapoint series *)

\* the Average values of the datapoints, in hundredths
Samples == {0, 250, 501}

Series == UNION {[1..n -> Samples] : n \in 0..MaxSamples}

InitReducers ==
    /\ aws_faults = {}
    /\ clock = 0
    /\ threads = NoThreads
    /\ pricing_ret = NoReturn
    /\ \/ /\ aws_ec2 = <<>>
          /\ ec2_scanner = [region |-> "us-east-1", days |-> 14, idle_threshold |-> 500,
                            idle_instances |-> <<>>]
          /\ ec2_price_cache = << >>
          /\ \E datapoints \in Series :
                ec2_ret = [op |-> "arguments", args |-> [datapoints |-> datapoints],
                           calls |-> <<>>]
          /\ NoRDS
       \/ /\ aws_rds = <<>> /\ aws_snapshots = <<>>
          /\ rds_scanner = [region |-> "us-east-1", days |-> 14, cpu_threshold |-> 500,
                            connections_threshold |-> 100, snapshot_age_days |-> 90,
                            idle_instances |-> <<>>, old_snapshots |-> <<>>]
          /\ rds_price_cache = << >>
          /\ \E datapoints \in Series :
                rds_ret = [op |-> "arguments", args |-> [datapoints |-> datapoints],
                           calls |-> <<>>]
          /\ NoEC2
    /\ NoEBS /\ NoS3

\* EC2Scanner.calculate_average_cpu called on its own
call_calculate_average_cpu ==
    /\ Constructed(ec2_scanner)
    /\ ec2_ret.op = "arguments"
    /\ ec2_ret' = [op |-> "calculate_average_cpu",
                   outcome |-> "returned",
                   value |-> calculate_average_cpu(ec2_ret.args.datapoints),
                   args |-> ec2_ret.args,
                   calls |-> <<>>]
    /\ UNCHANGED <<threads, pricing_ret, aws_faults, clock, aws_ec2, ec2_scanner, ec2_price_cache,
                   rds_vars, ebs_vars, s3_vars>>

\* RDSScanner.calculate_average called on its own
call_calculate_average ==
    /\ Constructed(rds_scanner)
    /\ rds_ret.op = "arguments"
    /\ rds_ret' = [op |-> "calculate_average",
                   outcome |-> "returned",
                   value |-> calculate_average(rds_ret.args.datapoints),
                   args |-> rds_ret.args,
                   calls |-> <<>>]
    /\ UNCHANGED <<threads, pricing_ret, aws_faults, clock, aws_rds, aws_snapshots, rds_scanner,
                   rds_price_cache, ec2_vars, ebs_vars, s3_vars>>

NextReducers == call_calculate_average_cpu \/ call_calculate_average

SpecReducers == InitReducers /\ [][NextReducers]_vars


----------------------------------------------------------------------------
(* Threads that look a price up on the one AWSPricingClient of the process *)

ThreadIds == 1..MaxThreads

\* the volume types the threads ask for
LookupVolumeTypes == {"gp2", "gp3"}

\* the prices the Price List API may answer for a volume type while the threads
\* run: the catalogue price, and the price after the catalogue was updated
LiveAnswers(volume_type) ==
    {PriceListEBS(volume_type).val, PriceListEBS(volume_type).val + 10}

\* f"ebs_{volume_type}_{region}"
ebs_cache_key(volume_type, region) == <<"ebs", volume_type, region>>

\* a dict assignment that rebinds the cache to a dict of one entry (not the source's)
store_price_alone(cache, cache_key, price) == (cache_key :> price)

\* self._price_cache[cache_key] = price
store_price(cache, cache_key, price) == (cache_key :> price) @@ cache

\* a thread about to call get_ebs_cost_per_gb(volume_type, region, use_api=True)
ThreadStart(volume_type) ==
    [pc |-> "in_cache", volume_type |-> volume_type, region |-> "us-east-1",
     fetched |-> None, price |-> None, result |-> None]

\* `if cache_key in self._price_cache`
lookup_in_cache ==
    \E t \in ThreadIds :
       /\ threads[t].pc = "in_cache"
       /\ threads' = [threads EXCEPT ![t].pc =
              IF ebs_cache_key(threads[t].volume_type, threads[t].region)
                     \in DOMAIN ebs_price_cache
              THEN "read_cache" ELSE "get_products"]
       /\ UNCHANGED <<pricing_ret, aws_faults, clock, ec2_vars, rds_vars, ebs_vars, s3_vars>>

\* `return self._price_cache[cache_key]`
lookup_read_cache ==
    \E t \in ThreadIds :
       /\ threads[t].pc = "read_cache"
       /\ threads' = [threads EXCEPT
              ![t].price = Some(ebs_price_cache[ebs_cache_key(threads[t].volume_type,
                                                              threads[t].region)]),
              ![t].pc = "resolve"]
       /\ UNCHANGED <<pricing_ret, aws_faults, clock, ec2_vars, rds_vars, ebs_vars, s3_vars>>

\* self.pricing_client.get_products(...) and the loop over the PriceList: a price,
\* no product, or an exception (caught in the method, or in get_ebs_cost_per_gb)
lookup_get_products ==
    \E t \in ThreadIds :
       /\ threads[t].pc = "get_products"
       /\ \/ \E price \in LiveAnswers(threads[t].volume_type) :
                threads' = [threads EXCEPT ![t].fetched = Some(price),
                                           ![t].price = Some(price),
                                           ![t].pc = "write_cache"]
          \/ \E failure \in {NotFound, ClientError, BotoCoreError, UnexpectedError} :
                threads' = [threads EXCEPT ![t].pc = "resolve"]
       /\ UNCHANGED <<pricing_ret, aws_faults, clock, ec2_vars, rds_vars, ebs_vars, s3_vars>>

\* `self._price_cache[cache_key] = price`, then `return price`
lookup_write_cache ==
    \E t \in ThreadIds :
       /\ threads[t].pc = "write_cache"
       /\ ebs_price_cache' =
              store_price(ebs_price_cache,
                          ebs_cache_key(threads[t].volume_type, threads[t].region),
                          threads[t].price.val)
       /\ threads' = [threads EXCEPT ![t].pc = "resolve"]
       /\ UNCHANGED <<pricing_ret, aws_faults, clock, ec2_vars, rds_vars, aws_ebs,
                      ebs_scanner, ebs_ret, s3_vars>>

\* get_ebs_cost_per_gb: the price of the client if it is not None, else the default
lookup_resolve ==
    \E t \in ThreadIds :
       /\ threads[t].pc = "resolve"
       /\ threads' = [threads EXCEPT
              ![t].result =
                  IF ~threads[t].price.none THEN threads[t].price
                  ELSE IF threads[t].volume_type \in DOMAIN DEFAULT_EBS_PRICES
                  THEN Some(DEFAULT_EBS_PRICES[threads[t].volume_type])
                  ELSE Some(DEFAULT_EBS_PRICES["gp2"]),
              ![t].pc = "done"]
       /\ UNCHANGED <<pricing_ret, aws_faults, clock, ec2_vars, rds_vars, ebs_vars, s3_vars>>

InitConcurrentLookups ==
    /\ threads \in [ThreadIds -> {ThreadStart(v) : v \in LookupVolumeTypes}]
    /\ aws_faults = {}
    /\ clock = 0
    /\ pricing_ret = NoReturn
    /\ NoEC2 /\ NoRDS /\ NoEBS /\ NoS3

NextConcurrentLookups ==
    \/ lookup_in_cache \/ lookup_read_cache \/ lookup_get_products
    \/ lookup_write_cache \/ lookup_resolve

SpecConcurrentLookups == InitConcurrentLookups /\ [][NextConcurrentLookups]_vars

----------------------------------------------------------------------------
(* Threads that call analyze_ec2_instances on the same EC2Scanner *)

\* an attribute assignment that leaves the list in place (not the source's)
reset_idle_instances_keeping(self) == self

\* self.idle_instances = []
reset_idle_instances(self) == [self EXCEPT !.idle_instances = <<>>]

\* a thread about to call scanner.analyze_ec2_instances().  `appended`, `alone`,
\* `called` and `again` are bookkeeping: the findings this call has appended,
\* whether no other call was in progress at any time between its first statement
\* and now, the provider calls it has issued, and whether it issued one of them a
\* second time; `loop` and `after` are the first statement of the loop body and
\* the statement after the loop
AnalyzeStart ==
    [pc |-> "reset", instances |-> <<>>, k |-> 1, finding |-> None, result |-> None,
     appended |-> <<>>, alone |-> TRUE, called |-> {}, again |-> FALSE,
     loop |-> "examine", after |-> "return"]

\* a thread that does not call the scanner
NotCalling == [AnalyzeStart EXCEPT !.pc = "done"]

\* the thread has issued the provider calls `sites`
issued(thread, sites) ==
    [thread EXCEPT !.called = @ \cup sites,
                   !.again = @ \/ (sites \cap thread.called # {})]

\* a loop that stays at the resource it has just examined (not the source's)
next_instance_again(thread) == [thread EXCEPT !.pc = thread.loop]

\* `for instance in instances:` moves on to the next resource, or leaves the loop
next_instance(thread) ==
    [thread EXCEPT !.k = @ + 1,
                   !.pc = IF thread.k = Len(thread.instances)
                          THEN thread.after ELSE thread.loop]

InProgress(thread) == thread.pc \in {"list", "examine", "append", "return"}

\* `self.idle_instances = []  # Reset for fresh scan`
analyze_reset ==
    \E t \in ThreadIds :
       /\ threads[t].pc = "reset"
       /\ ec2_scanner' = reset_idle_instances(ec2_scanner)
       /\ threads' = [u \in ThreadIds |->
              IF u = t
              THEN [threads[t] EXCEPT
                      !.pc = "list",
                      !.alone = \A v \in ThreadIds \ {t} : ~InProgress(threads[v])]
              ELSE IF InProgress(threads[u]) THEN [threads[u] EXCEPT !.alone = FALSE]
              ELSE threads[u]]
       /\ UNCHANGED <<pricing_ret, aws_faults, clock, aws_ec2, ec2_price_cache, ec2_ret,
                      rds_vars, ebs_vars, s3_vars>>

\* `instances = self.get_running_ec2_instances()`; an empty listing goes to the return
analyze_list ==
    \E t \in ThreadIds :
       /\ threads[t].pc = "list"
       /\ \E listing \in {get_running_ec2_instances(aws_ec2, aws_faults)} :
             threads' = [threads EXCEPT
                 ![t] = [issued(threads[t], {EC2ListSite}) EXCEPT
                            !.instances = listing.value,
                            !.pc = IF listing.raised THEN "raised"
                                   ELSE IF listing.value = <<>> THEN "return"
                                   ELSE "examine"]]
       /\ UNCHANGED <<pricing_ret, aws_faults, clock, ec2_vars, rds_vars, ebs_vars, s3_vars>>

\* one pass of the loop body up to the append: the metrics of the k-th instance,
\* the average, the comparison and, for an idle instance, the cost and the finding
analyze_examine ==
    \E t \in ThreadIds :
       /\ threads[t].pc = "examine"
       /\ \E instance \in {threads[t].instances[threads[t].k]} :
          \E cpu_data \in {get_ec2_cpu_utilization(aws_ec2, instance.instance_id, aws_faults)} :
          \E avg_cpu \in {calculate_average_cpu(cpu_data.value)} :
          \E mc \in {calculate_ec2_monthly_cost(ec2_price_cache, instance.instance_type,
                                                ec2_scanner.region, TRUE,
                                                EC2PricingSite(instance.instance_id),
                                                aws_faults)} :
          \E queried \in {issued(threads[t], {EC2MetricSite(instance.instance_id)})} :
             IF cpu_data.raised
             THEN /\ threads' = [threads EXCEPT ![t] = [queried EXCEPT !.pc = "raised"]]
                  /\ UNCHANGED ec2_price_cache
             ELSE IF ~avg_cpu.none /\ ec2_is_idle(avg_cpu, ec2_scanner.idle_threshold)
             THEN /\ threads' = [threads EXCEPT
                        ![t] = [issued(queried,
                                       IF mc.called
                                       THEN {EC2PricingSite(instance.instance_id)}
                                       ELSE {}) EXCEPT
                                  !.finding =
                                     Some([instance_id |-> instance.instance_id,
                                           instance_type |-> instance.instance_type,
                                           avg_cpu_percent |-> Round2(avg_cpu),
                                           estimated_monthly_cost |-> mc.cost,
                                           analysis_period_days |-> ec2_scanner.days,
                                           idle_threshold |-> ec2_scanner.idle_threshold]),
                                  !.pc = "append"]]
                  /\ ec2_price_cache' = mc.cache
             ELSE /\ threads' = [threads EXCEPT ![t] = next_instance(queried)]
                  /\ UNCHANGED ec2_price_cache
       /\ UNCHANGED <<pricing_ret, aws_faults, clock, aws_ec2, ec2_scanner, ec2_ret,
                      rds_vars, ebs_vars, s3_vars>>

\* `self.idle_instances.append(idle_instance)`: the list the attribute names now
analyze_append ==
    \E t \in ThreadIds :
       /\ threads[t].pc = "append"
       /\ ec2_scanner' = [ec2_scanner EXCEPT
              !.idle_instances = Append(@, threads[t].finding.val)]
       /\ threads' = [threads EXCEPT
              ![t] = [next_instance(threads[t]) EXCEPT
                         !.appended = Append(@, threads[t].finding.val),
                         !.finding = None]]
       /\ UNCHANGED <<pricing_ret, aws_faults, clock, aws_ec2, ec2_price_cache, ec2_ret,
                      rds_vars, ebs_vars, s3_vars>>

\* `return self.idle_instances`
analyze_return ==
    \E t \in ThreadIds :
       /\ threads[t].pc = "return"
       /\ threads' = [threads EXCEPT ![t].result = Some(ec2_scanner.idle_instances),
                                     ![t].pc = "done"]
       /\ UNCHANGED <<pricing_ret, aws_faults, clock, ec2_vars, rds_vars, ebs_vars, s3_vars>>

InitConcurrentScans ==
    /\ aws_ec2 \in ScanFleets(ScanEC2Profiles)
    /\ aws_faults \in FaultPlans(EC2Sites(aws_ec2), {})
    /\ clock = 0
    /\ threads = [t \in ThreadIds |-> AnalyzeStart]
    /\ pricing_ret = NoReturn
    /\ ec2_scanner = [region |-> "us-east-1", days |-> 14, idle_threshold |-> 500,
                      idle_instances |-> <<>>]
    /\ ec2_price_cache = << >>
    /\ ec2_ret = NoReturn
    /\ NoRDS /\ NoEBS /\ NoS3

NextConcurrentScans ==
    \/ analyze_reset \/ analyze_list \/ analyze_examine \/ analyze_append
    \/ analyze_return

SpecConcurrentScans == InitConcurrentScans /\ [][NextConcurrentScans]_vars
----------------------------------------------------------------------------
(* Operations and specification: scans run statement by statement to their end *)

\* no element occurs twice in the sequence
NoRepeat(s) == \A i, j \in 1..Len(s) : s[i] = s[j] => i = j

\* the thread has issued the provider calls of the sequence, in that order
issued_in_order(thread, calls) ==
    [issued(thread, Range(calls)) EXCEPT !.again = @ \/ ~NoRepeat(calls)]

\* a thread about to call scanner.analyze_rds_instances()
RdsAnalyzeStart ==
    [AnalyzeStart EXCEPT !.pc = "rds_reset", !.loop = "rds_examine",
                         !.after = "rds_return"]

\* `self.idle_instances = []`
rds_analyze_reset ==
    /\ threads[1].pc = "rds_reset"
    /\ rds_scanner' = [rds_scanner EXCEPT !.idle_instances = <<>>]
    /\ threads' = [threads EXCEPT ![1].pc = "rds_list"]
    /\ UNCHANGED <<pricing_ret, aws_faults, clock, aws_rds, aws_snapshots, rds_price_cache,
                   rds_ret, ec2_vars, ebs_vars, s3_vars>>

\* `instances = self.get_rds_instances()` and the filter on the status; without an
\* available instance the operation returns
rds_analyze_list ==
    /\ threads[1].pc = "rds_list"
    /\ \E available_instances \in
              {available_only(get_rds_instances(aws_rds, aws_faults))} :
          threads' = [threads EXCEPT
              ![1] = [issued(threads[1], {RDSListSite}) EXCEPT
                         !.instances = available_instances,
                         !.pc = IF available_instances = <<>> THEN "rds_return"
                                ELSE "rds_examine"]]
    /\ UNCHANGED <<pricing_ret, aws_faults, clock, rds_vars, ec2_vars, ebs_vars, s3_vars>>

\* one pass of the loop body: both metrics, the averages, the test and, for an idle
\* instance, the cost and the append
rds_analyze_examine ==
    /\ threads[1].pc = "rds_examine"
    /\ \E r \in {rds_analyze_loop(rds_scanner, aws_rds,
                                  <<threads[1].instances[threads[1].k]>>, 1, TRUE,
                                  aws_faults,
                                  [idle |-> rds_scanner.idle_instances,
                                   cache |-> rds_price_cache, calls |-> <<>>])} :
          /\ rds_scanner' = [rds_scanner EXCEPT !.idle_instances = r.idle]
          /\ rds_price_cache' = r.cache
          /\ threads' = [threads EXCEPT
                 ![1] = next_instance(issued_in_order(threads[1], r.calls))]
    /\ UNCHANGED <<pricing_ret, aws_faults, clock, aws_rds, aws_snapshots, rds_ret,
                   ec2_vars, ebs_vars, s3_vars>>

\* `return self.idle_instances`
rds_analyze_return ==
    /\ threads[1].pc = "rds_return"
    /\ threads' = [threads EXCEPT ![1].result = Some(rds_scanner.idle_instances),
                                  ![1].pc = "done"]
    /\ UNCHANGED <<pricing_ret, aws_faults, clock, rds_vars, ec2_vars, ebs_vars, s3_vars>>

\* a thread about to call scanner.analyze_ebs_volumes(): `pass` is the cost sum it
\* is computing, `costs` the terms of the three sums
EbsAnalyzeStart ==
    [pass |-> 0, costs |-> <<<<>>, <<>>, <<>>>>] @@
    [AnalyzeStart EXCEPT !.pc = "ebs_unattached", !.loop = "ebs_low_io",
                         !.after = "ebs_low_io_return"]

\* `self.unattached_volumes = self.get_unattached_volumes()`
ebs_analyze_unattached ==
    /\ threads[1].pc = "ebs_unattached"
    /\ ebs_scanner' = [ebs_scanner EXCEPT
           !.unattached_volumes = get_unattached_volumes(aws_ebs, aws_faults)]
    /\ threads' = [threads EXCEPT
           ![1] = [issued(threads[1], {EBSUnattachedListSite}) EXCEPT
                      !.pc = "ebs_low_io_list"]]
    /\ UNCHANGED <<pricing_ret, aws_faults, clock, aws_ebs, ebs_price_cache, ebs_ret,
                   ec2_vars, rds_vars, s3_vars>>

\* get_low_io_volumes: the listing of all volumes; a failure ends in the except
\* clause, which returns []
ebs_analyze_list ==
    /\ threads[1].pc = "ebs_low_io_list"
    /\ \E volumes \in {IF FaultAt(aws_faults, EBSListSite) = "ok"
                       THEN volumes_from(aws_ebs, 1, FALSE) ELSE <<>>} :
          threads' = [threads EXCEPT
              ![1] = [issued(threads[1], {EBSListSite}) EXCEPT
                         !.instances = volumes,
                         !.pc = IF volumes = <<>> THEN "ebs_low_io_return"
                                ELSE "ebs_low_io"]]
    /\ UNCHANGED <<pricing_ret, aws_faults, clock, ebs_vars, ec2_vars, rds_vars, s3_vars>>

\* get_low_io_volumes: one pass of the loop body: both metrics, the total and the
\* test; a failure ends in the except clause, which returns []
ebs_analyze_low_io ==
    /\ threads[1].pc = "ebs_low_io"
    /\ \E r \in {low_io_loop(ebs_scanner, aws_ebs,
                             <<threads[1].instances[threads[1].k]>>, 1, aws_faults,
                             [low |-> threads[1].appended, raised |-> FALSE,
                              calls |-> <<>>])} :
       \E queried \in {issued_in_order(threads[1], r.calls)} :
          threads' = [threads EXCEPT
              ![1] = IF r.raised
                     THEN [queried EXCEPT !.appended = <<>>, !.pc = "ebs_low_io_return"]
                     ELSE [next_instance(queried) EXCEPT !.appended = r.low]]
    /\ UNCHANGED <<pricing_ret, aws_faults, clock, ebs_vars, ec2_vars, rds_vars, s3_vars>>

\* the volumes of a cost sum: the unattached list, the low-I/O list, the low-I/O
\* volumes that are not unattached
volumes_of_pass(self, pass) ==
    CASE pass = 1 -> self.unattached_volumes
      [] pass = 2 -> self.low_io_volumes
      [] pass = 3 -> low_io_only(self.low_io_volumes,
                                 {self.unattached_volumes[i].VolumeId :
                                     i \in 1..Len(self.unattached_volumes)})

\* the thread begins the cost sum `pass` of the scanner
begin_pass(thread, self, pass) ==
    [thread EXCEPT !.pass = pass,
                   !.instances = volumes_of_pass(self, pass),
                   !.k = 1,
                   !.loop = "ebs_cost",
                   !.after = "ebs_cost_done",
                   !.pc = IF volumes_of_pass(self, pass) = <<>>
                          THEN "ebs_cost_done" ELSE "ebs_cost"]

\* `self.low_io_volumes = self.get_low_io_volumes()`, then the first sum begins
ebs_analyze_low_io_return ==
    /\ threads[1].pc = "ebs_low_io_return"
    /\ ebs_scanner' = [ebs_scanner EXCEPT !.low_io_volumes = threads[1].appended]
    /\ threads' = [threads EXCEPT ![1] = begin_pass(threads[1], ebs_scanner', 1)]
    /\ UNCHANGED <<pricing_ret, aws_faults, clock, aws_ebs, ebs_price_cache, ebs_ret,
                   ec2_vars, rds_vars, s3_vars>>

\* one term of a sum: self.calculate_monthly_cost(volume, use_api=use_pricing_api)
ebs_analyze_cost ==
    /\ threads[1].pc = "ebs_cost"
    /\ \E r \in {cost_pass(ebs_scanner, <<threads[1].instances[threads[1].k]>>, 1,
                           threads[1].pass, TRUE, aws_faults,
                           [costs |-> threads[1].costs[threads[1].pass],
                            cache |-> ebs_price_cache, calls |-> <<>>])} :
          /\ ebs_price_cache' = r.cache
          /\ threads' = [threads EXCEPT
                 ![1] = [next_instance(issued_in_order(threads[1], r.calls)) EXCEPT
                            !.costs[threads[1].pass] = r.costs]]
    /\ UNCHANGED <<pricing_ret, aws_faults, clock, aws_ebs, ebs_scanner, ebs_ret,
                   ec2_vars, rds_vars, s3_vars>>

\* a sum is complete: the next sum begins, or the result dict is returned
ebs_analyze_cost_done ==
    /\ threads[1].pc = "ebs_cost_done"
    /\ IF threads[1].pass < 3
       THEN /\ threads' = [threads EXCEPT
                   ![1] = begin_pass(threads[1], ebs_scanner, threads[1].pass + 1)]
            /\ UNCHANGED ebs_ret
       ELSE /\ threads' = [threads EXCEPT ![1].pc = "done"]
            /\ ebs_ret' = [op |-> "analyze_ebs_volumes",
                           outcome |-> "returned",
                           value |-> ebs_result(ebs_scanner.unattached_volumes,
                                                ebs_scanner.low_io_volumes,
                                                [costs |-> threads[1].costs[1]],
                                                [costs |-> threads[1].costs[2]],
                                                [costs |-> threads[1].costs[3]]),
                           use_api |-> TRUE,
                           faults |-> aws_faults,
                           calls |-> <<>>,
                           costs |-> threads[1].costs]
    /\ UNCHANGED <<pricing_ret, aws_faults, clock, aws_ebs, ebs_scanner, ebs_price_cache,
                   ec2_vars, rds_vars, s3_vars>>

\* the provider answers up to MaxFaults of the calls with a ClientError
ThrottledCalls(sites) ==
    FaultPlansUpTo({[site |-> s, err |-> ClientError] : s \in sites}, MaxFaults)

\* one thread scans the resources of one scanner statement by statement; the
\* provider's failing calls may keep failing for ever
InitTerminationEC2 ==
    /\ aws_ec2 \in ScanFleets(SummaryEC2Profiles)
    /\ aws_faults \in FaultPlans(EC2Sites(aws_ec2), EC2PricingSites(aws_ec2))
    /\ threads = [t \in ThreadIds |-> IF t = 1 THEN AnalyzeStart ELSE NotCalling]
    /\ ec2_scanner = [region |-> "us-east-1", days |-> 14, idle_threshold |-> 500,
                      idle_instances |-> <<>>]
    /\ ec2_price_cache = << >>
    /\ ec2_ret = NoReturn
    /\ NoRDS /\ NoEBS

InitTerminationRDS ==
    /\ aws_rds \in ScanFleets(ScanRDSProfiles)
    /\ aws_snapshots = <<>>
    /\ aws_faults \in ThrottledCalls(RDSSites(aws_rds) \cup RDSPricingSites(aws_rds))
    /\ threads = [t \in ThreadIds |-> IF t = 1 THEN RdsAnalyzeStart ELSE NotCalling]
    /\ rds_scanner = [region |-> "us-east-1", days |-> 14, cpu_threshold |-> 500,
                      connections_threshold |-> 100, snapshot_age_days |-> 2,
                      idle_instances |-> <<>>, old_snapshots |-> <<>>]
    /\ rds_price_cache = << >>
    /\ rds_ret = NoReturn
    /\ NoEC2 /\ NoEBS

InitTerminationEBS ==
    /\ aws_ebs \in ScanFleets(ScanEBSProfiles)
    /\ aws_faults \in ThrottledCalls(EBSSites(aws_ebs) \cup EBSPricingSites(aws_ebs))
    /\ threads = [t \in ThreadIds |-> IF t = 1 THEN EbsAnalyzeStart ELSE NotCalling]
    /\ ebs_scanner = [region |-> "us-east-1", days |-> 14, io_threshold |-> 100,
                      unattached_volumes |-> <<>>, low_io_volumes |-> <<>>]
    /\ ebs_price_cache = << >>
    /\ ebs_ret = NoReturn
    /\ NoEC2 /\ NoRDS

InitTermination ==
    /\ clock = 0
    /\ pricing_ret = NoReturn
    /\ NoS3
    /\ InitTerminationEC2 \/ InitTerminationRDS \/ InitTerminationEBS

\* the next statement of the scan in progress
ScanStep ==
    \/ analyze_reset \/ analyze_list \/ analyze_examine \/ analyze_append
    \/ analyze_return
    \/ rds_analyze_reset \/ rds_analyze_list \/ rds_analyze_examine
    \/ rds_analyze_return
    \/ ebs_analyze_unattached \/ ebs_analyze_list \/ ebs_analyze_low_io
    \/ ebs_analyze_low_io_return \/ ebs_analyze_cost \/ ebs_analyze_cost_done

NextTermination == ScanStep \/ provider_recovers

\* a call that was made runs on: the interpreter executes the next statement of
\* the scan in progress
SpecTermination ==
    InitTermination /\ [][NextTermination]_vars /\ WF_vars(ScanStep)

----------------------------------------------------------------------------
(* Operations and specification: the cost of an EC2 idle finding *)

\* idle instances of three types: in the default table, absent from it, and one
\* whose Price List product is priced at zero; every series but the last averages
\* 2.0 percent
PricedEC2Profiles ==
    {<<"t3.micro", <<100, 300>>>>,
     <<"z9.large", <<200>>>>,
     <<"z0.free", <<100, 300>>>>,
     <<"t3.micro", <<499, 501>>>>}

InitPricedFindings ==
    /\ aws_ec2 \in ScanFleets(PricedEC2Profiles)
    /\ aws_faults \in FaultPlans(EC2Sites(aws_ec2), EC2PricingSites(aws_ec2))
    /\ clock = 0
    /\ threads = NoThreads
    /\ pricing_ret = NoReturn
    /\ ec2_scanner = [region |-> "us-east-1", days |-> 14, idle_threshold |-> 500,
                      idle_instances |-> <<>>]
    /\ ec2_price_cache = << >>
    /\ ec2_ret = NoReturn
    /\ NoRDS /\ NoEBS /\ NoS3

NextPricedFindings == analyze_ec2_instances \/ provider_recovers

SpecPricedFindings == InitPricedFindings /\ [][NextPricedFindings]_vars

----------------------------------------------------------------------------
(* Properties of EC2Scanner *)

Ec2Returned ==
    ec2_ret.op = "analyze_ec2_instances" /\ ec2_ret.outcome = "returned"

\* positions of the instances the listing call of the last scan returned
Ec2Listed ==
    IF FaultAt(ec2_ret.faults, EC2ListSite) = "ok" THEN 1..Len(aws_ec2) ELSE {}

\* the CPU series the metrics call of the last scan returned for the k-th instance
Ec2Series(k) ==
    IF FaultAt(ec2_ret.faults, EC2MetricSite(InstanceIds[k])) = "ok"
    THEN aws_ec2[k][2] ELSE <<>>

Ec2Flagged(k) == \E i \in 1..Len(ec2_ret.value) :
                    ec2_ret.value[i].instance_id = InstanceIds[k]

\* C1: in a call of analyze_ec2_instances that returns, a listed running instance
\* is among the idle findings iff its CPU series is non-empty and the mean of its
\* samples is <= idle_threshold (a mean equal to the threshold is idle, an empty
\* series never is)
C1_Ec2IdleIffMeanAtMostThreshold ==
    Ec2Returned =>
        \A k \in Ec2Listed :
            Ec2Flagged(k) <=>
                /\ Ec2Series(k) # <<>>
                /\ SumSeq(Ec2Series(k)) <= ec2_scanner.idle_threshold * Len(Ec2Series(k))

\* a scan that flagged an instance whose mean is exactly the threshold and left out
\* one with samples whose mean is above it
C1_Witness ==
    /\ Ec2Returned
    /\ \E k \in Ec2Listed :
          /\ Ec2Flagged(k) /\ Ec2Series(k) # <<>>
          /\ SumSeq(Ec2Series(k)) = ec2_scanner.idle_threshold * Len(Ec2Series(k))
    /\ \E k \in Ec2Listed :
          /\ ~Ec2Flagged(k) /\ Ec2Series(k) # <<>>
          /\ SumSeq(Ec2Series(k)) > ec2_scanner.idle_threshold * Len(Ec2Series(k))

----------------------------------------------------------------------------
(* Properties of RDSScanner *)

RdsAnalyzed == rds_ret.op = "analyze_rds_instances" /\ rds_ret.outcome = "returned"

\* positions of the instances the listing call of the last scan returned
RdsListed ==
    IF FaultAt(rds_ret.faults, RDSListSite) = "ok" THEN 1..Len(aws_rds) ELSE {}

\* the series the two metrics calls of the last scan returned for the k-th instance
RdsCpuSeries(k) ==
    IF FaultAt(rds_ret.faults, RDSCpuSite(DbInstanceIds[k])) = "ok"
    THEN aws_rds[k].cpu ELSE <<>>

RdsConnSeries(k) ==
    IF FaultAt(rds_ret.faults, RDSConnSite(DbInstanceIds[k])) = "ok"
    THEN aws_rds[k].connections ELSE <<>>

RdsFlagged(k) == \E i \in 1..Len(rds_ret.value) :
                    rds_ret.value[i].db_instance_id = DbInstanceIds[k]

\* C2: in a call of analyze_rds_instances a listed database instance is among the
\* idle findings iff its status is "available", its CPU series is non-empty with
\* mean <= cpu_threshold, and its connections series is non-empty with
\* mean <= connections_threshold (both comparisons inclusive)
C2_RdsIdleIffAvailableAndBothAtMostThreshold ==
    RdsAnalyzed =>
        \A k \in RdsListed :
            RdsFlagged(k) <=>
                /\ aws_rds[k].status = "available"
                /\ RdsCpuSeries(k) # <<>>
                /\ SumSeq(RdsCpuSeries(k)) <= rds_scanner.cpu_threshold * Len(RdsCpuSeries(k))
                /\ RdsConnSeries(k) # <<>>
                /\ SumSeq(RdsConnSeries(k))
                       <= rds_scanner.connections_threshold * Len(RdsConnSeries(k))

\* a scan that flagged an instance with both means exactly at their thresholds and
\* left out an available one whose CPU is idle but whose connections are above
C2_Witness ==
    /\ RdsAnalyzed
    /\ \E k \in RdsListed :
          /\ RdsFlagged(k)
          /\ RdsCpuSeries(k) # <<>> /\ RdsConnSeries(k) # <<>>
          /\ SumSeq(RdsCpuSeries(k)) = rds_scanner.cpu_threshold * Len(RdsCpuSeries(k))
          /\ SumSeq(RdsConnSeries(k))
                 = rds_scanner.connections_threshold * Len(RdsConnSeries(k))
    /\ \E k \in RdsListed :
          /\ ~RdsFlagged(k)
          /\ aws_rds[k].status = "available"
          /\ RdsCpuSeries(k) # <<>> /\ RdsConnSeries(k) # <<>>
          /\ SumSeq(RdsCpuSeries(k)) <= rds_scanner.cpu_threshold * Len(RdsCpuSeries(k))
          /\ SumSeq(RdsConnSeries(k))
                 > rds_scanner.connections_threshold * Len(RdsConnSeries(k))

----------------------------------------------------------------------------
(* Properties of RDSScanner.find_old_snapshots *)

SnapshotsScanned == rds_ret.op = "find_old_snapshots"

\* positions of the snapshots the listing call of the last scan returned
SnapshotsListed ==
    IF FaultAt(rds_ret.faults, SnapshotListSite) = "ok" THEN 1..Len(aws_snapshots) ELSE {}

HasCreateTime(k) == ~aws_snapshots[k].snapshot_create_time.none

\* the age of the k-th snapshot, in hours, when the last scan computed its cutoff
SnapshotAgeHours(k) == rds_ret.now - aws_snapshots[k].snapshot_create_time.val

SnapshotFlagged(k) == \E i \in 1..Len(rds_ret.value) :
                         rds_ret.value[i].snapshot_id = SnapshotIds[k]

\* the age_days the last scan reported for the k-th snapshot
ReportedAgeDays(k) ==
    (CHOOSE f \in Range(rds_ret.value) : f.snapshot_id = SnapshotIds[k]).age_days

\* C6 as stated: every flagged snapshot reports age_days > snapshot_age_days, a
\* snapshot whose age in whole days equals snapshot_age_days is never flagged, and
\* one whose age in whole days is snapshot_age_days + 1 is always flagged
C6_AsStated_AgeInDaysStrictlyGreater ==
    SnapshotsScanned =>
        \A k \in SnapshotsListed :
            HasCreateTime(k) =>
                /\ SnapshotFlagged(k) => ReportedAgeDays(k) > rds_scanner.snapshot_age_days
                /\ SnapshotAgeHours(k) \div HoursPerDay = rds_scanner.snapshot_age_days
                       => ~SnapshotFlagged(k)
                /\ SnapshotAgeHours(k) \div HoursPerDay = rds_scanner.snapshot_age_days + 1
                       => SnapshotFlagged(k)

\* C6: find_old_snapshots flags a listed manual snapshot iff it has a creation time
\* and its exact age is strictly greater than snapshot_age_days days; the reported
\* age_days is the age in whole days, so it is >= snapshot_age_days for every
\* flagged snapshot and equal to it for one that is a fraction of a day over; a
\* snapshot of snapshot_age_days + 1 whole days is always flagged
C6_OldIffExactAgeOverThreshold ==
    SnapshotsScanned =>
        \A k \in SnapshotsListed :
            /\ SnapshotFlagged(k) <=>
                   /\ HasCreateTime(k)
                   /\ SnapshotAgeHours(k) > HoursPerDay * rds_scanner.snapshot_age_days
            /\ SnapshotFlagged(k) =>
                   /\ ReportedAgeDays(k) >= rds_scanner.snapshot_age_days
                   /\ ReportedAgeDays(k) \in {SnapshotAgeHours(k) \div HoursPerDay,
                                              (SnapshotAgeHours(k) + 1) \div HoursPerDay}
            /\ (HasCreateTime(k)
                /\ SnapshotAgeHours(k) \div HoursPerDay >= rds_scanner.snapshot_age_days + 1)
                   => SnapshotFlagged(k)

\* a scan that flagged a snapshot one hour over the threshold, reporting an age_days
\* equal to the threshold, and left out a snapshot exactly at the threshold
C6_Witness ==
    /\ SnapshotsScanned
    /\ \E k \in SnapshotsListed :
          /\ HasCreateTime(k)
          /\ SnapshotAgeHours(k) = HoursPerDay * rds_scanner.snapshot_age_days + 1
          /\ SnapshotFlagged(k)
          /\ ReportedAgeDays(k) = rds_scanner.snapshot_age_days
    /\ \E k \in SnapshotsListed :
          /\ HasCreateTime(k)
          /\ SnapshotAgeHours(k) = HoursPerDay * rds_scanner.snapshot_age_days
          /\ ~SnapshotFlagged(k)

----------------------------------------------------------------------------
(* Properties of EBSScanner.get_low_io_volumes *)

LowIoCalled == ebs_ret.op = "get_low_io_volumes"

\* the listing call and every metrics call of the last get_low_io_volumes succeeded
LowIoUndisturbed ==
    /\ FaultAt(ebs_ret.faults, EBSListSite) = "ok"
    /\ \A k \in 1..Len(aws_ebs) :
          /\ FaultAt(ebs_ret.faults, EBSReadSite(VolumeIds[k])) = "ok"
          /\ FaultAt(ebs_ret.faults, EBSWriteSite(VolumeIds[k])) = "ok"

\* the read and write operations of the k-th volume over the window
EbsTotalIo(k) == SumSeq(aws_ebs[k].read_ops) + SumSeq(aws_ebs[k].write_ops)

EbsLowFlagged(k) == \E i \in 1..Len(ebs_ret.value) :
                       ebs_ret.value[i].VolumeId = VolumeIds[k]

\* C3 as stated: a listed volume is flagged iff its total I/O is <= io_threshold
C3_AsStated_InclusiveThreshold ==
    (LowIoCalled /\ LowIoUndisturbed) =>
        \A k \in 1..Len(aws_ebs) :
            EbsLowFlagged(k) <=> EbsTotalIo(k) <= ebs_scanner.io_threshold

\* C3: get_low_io_volumes, when its listing and metrics calls succeed, flags a
\* listed volume iff the sum of its read and write operations over the window is
\* strictly below io_threshold
C3_LowIoIffTotalBelowThreshold ==
    (LowIoCalled /\ LowIoUndisturbed) =>
        \A k \in 1..Len(aws_ebs) :
            EbsLowFlagged(k) <=> EbsTotalIo(k) < ebs_scanner.io_threshold

\* a call that flagged a volume one operation below the threshold and left out one
\* whose total is exactly the threshold
C3_Witness ==
    /\ LowIoCalled /\ LowIoUndisturbed
    /\ \E k \in 1..Len(aws_ebs) :
          EbsLowFlagged(k) /\ EbsTotalIo(k) = ebs_scanner.io_threshold - 1
    /\ \E k \in 1..Len(aws_ebs) :
          ~EbsLowFlagged(k) /\ EbsTotalIo(k) = ebs_scanner.io_threshold

\* C4: get_low_io_volumes never flags a volume whose total I/O equals io_threshold,
\* flags none at all when io_threshold is 0, and, when its listing and metrics
\* calls succeed, flags every volume whose total I/O is one operation below
C4_LowIoBoundaryIsStrict ==
    LowIoCalled =>
        \A k \in 1..Len(aws_ebs) :
            /\ EbsTotalIo(k) = ebs_scanner.io_threshold => ~EbsLowFlagged(k)
            /\ ebs_scanner.io_threshold = 0 => ~EbsLowFlagged(k)
            /\ (LowIoUndisturbed /\ EbsTotalIo(k) = ebs_scanner.io_threshold - 1)
                   => EbsLowFlagged(k)

\* a call with threshold 0 that examined a volume with zero I/O and flagged nothing
C4_Witness ==
    /\ LowIoCalled /\ LowIoUndisturbed
    /\ ebs_scanner.io_threshold = 0
    /\ \E k \in 1..Len(aws_ebs) : EbsTotalIo(k) = 0 /\ ~EbsLowFlagged(k)
    /\ ebs_ret.value = <<>>

EbsNoDatapoints(k) == aws_ebs[k].read_ops = <<>> /\ aws_ebs[k].write_ops = <<>>

\* C5 as stated: whatever the threshold, a volume with two empty series is flagged
C5_AsStated_EmptySeriesAlwaysFlagged ==
    (LowIoCalled /\ LowIoUndisturbed) =>
        \A k \in 1..Len(aws_ebs) : EbsNoDatapoints(k) => EbsLowFlagged(k)

\* C5: a listed volume whose read and write series are both empty counts as 0
\* total I/O; get_low_io_volumes, when its listing and metrics calls succeed,
\* flags it iff io_threshold is positive
C5_EmptySeriesFlaggedIffThresholdPositive ==
    (LowIoCalled /\ LowIoUndisturbed) =>
        \A k \in 1..Len(aws_ebs) :
            EbsNoDatapoints(k) => (EbsLowFlagged(k) <=> ebs_scanner.io_threshold > 0)

\* a call that flagged a volume without any datapoint
C5_Witness ==
    /\ LowIoCalled /\ LowIoUndisturbed
    /\ \E k \in 1..Len(aws_ebs) : EbsNoDatapoints(k) /\ EbsLowFlagged(k)

----------------------------------------------------------------------------
(* Properties of EBSScanner.analyze_ebs_volumes *)

EbsAnalyzed == ebs_ret.op = "analyze_ebs_volumes"

\* positions of the volumes in the unattached list, in the low-I/O list, of the result
EbsInUnattached ==
    {k \in 1..Len(aws_ebs) :
        \E i \in 1..Len(ebs_ret.value.unattached_volumes) :
            ebs_ret.value.unattached_volumes[i].VolumeId = VolumeIds[k]}

EbsInLowIo ==
    {k \in 1..Len(aws_ebs) :
        \E i \in 1..Len(ebs_ret.value.low_io_volumes) :
            ebs_ret.value.low_io_volumes[i].VolumeId = VolumeIds[k]}

\* the monthly cost of the k-th volume at a given price per GB, in cents
EbsCostAt(k, price_per_gb) ==
    RoundHalfEven(aws_ebs[k].Size * price_per_gb
                  + ebs_iops_cost(aws_ebs[k].VolumeType, aws_ebs[k].Iops)
                  + ebs_throughput_cost(aws_ebs[k].VolumeType, aws_ebs[k].Throughput),
                  100)

EbsDefaultCost(k) ==
    EbsCostAt(k, IF aws_ebs[k].VolumeType \in DOMAIN DEFAULT_EBS_PRICES
                 THEN DEFAULT_EBS_PRICES[aws_ebs[k].VolumeType]
                 ELSE DEFAULT_EBS_PRICES["gp2"])

EbsLiveCost(k) ==
    IF PriceListEBS(aws_ebs[k].VolumeType).none THEN EbsDefaultCost(k)
    ELSE EbsCostAt(k, PriceListEBS(aws_ebs[k].VolumeType).val)

\* the costs a price lookup of the last scan can have produced for the k-th volume
EbsPossibleCosts(k) ==
    IF ebs_ret.use_api THEN {EbsDefaultCost(k), EbsLiveCost(k)} ELSE {EbsDefaultCost(k)}

\* every price lookup of the last scan resolved a volume type to the same price:
\* the lookups were offline, or none of them failed
EbsPricesStable ==
    \/ ~ebs_ret.use_api
    \/ \A f \in ebs_ret.faults : f.site \notin EBSPricingSites(aws_ebs)

EbsStableCost(k) == IF ebs_ret.use_api THEN EbsLiveCost(k) ELSE EbsDefaultCost(k)

RECURSIVE SumOver(_, _)
SumOver(f, S) ==
    IF S = {} THEN 0
    ELSE LET x == CHOOSE y \in S : TRUE IN f[x] + SumOver(f, S \ {x})

EbsPlainSum ==
    ebs_ret.value.unattached_volumes_monthly_cost + ebs_ret.value.low_io_volumes_monthly_cost

\* C8 as stated: the total is the sum over the union, each volume once, and it is
\* never the plain sum of the two category totals when the lists overlap
C8_AsStated_NeverPlainSumOnOverlap ==
    EbsAnalyzed =>
        /\ \E c \in [EbsInUnattached \cup EbsInLowIo ->
                        UNION {EbsPossibleCosts(k) : k \in 1..Len(aws_ebs)}] :
              /\ \A k \in DOMAIN c : c[k] \in EbsPossibleCosts(k)
              /\ ebs_ret.value.total_potential_monthly_savings = SumOver(c, DOMAIN c)
        /\ (EbsInUnattached \cap EbsInLowIo # {}) =>
              ebs_ret.value.total_potential_monthly_savings # EbsPlainSum

\* C8: total_potential_monthly_savings is the sum, over the distinct volumes of the
\* union of the two lists, of one monthly cost per volume (a cost the scan's price
\* resolution gives that volume); when every lookup of the scan resolves a type to
\* the same price, it is the sum of that cost over the union, and it falls short of
\* the plain sum of the two category totals by exactly the cost of the volumes
\* that are in both lists
C8_TotalCountsEachVolumeOnce ==
    EbsAnalyzed =>
        LET union == EbsInUnattached \cup EbsInLowIo
            both == EbsInUnattached \cap EbsInLowIo
            total == ebs_ret.value.total_potential_monthly_savings
            stable == [k \in 1..Len(aws_ebs) |-> EbsStableCost(k)]
        IN  /\ \E c \in [union -> UNION {EbsPossibleCosts(k) : k \in 1..Len(aws_ebs)}] :
                  /\ \A k \in union : c[k] \in EbsPossibleCosts(k)
                  /\ total = SumOver(c, union)
            /\ EbsPricesStable =>
                  /\ total = SumOver(stable, union)
                  /\ EbsPlainSum - total = SumOver(stable, both)
                  /\ both # {} => total < EbsPlainSum

\* a scan with stable prices whose lists overlap: an unattached volume that is also
\* low I/O, next to a volume that is low I/O only
C8_Witness ==
    /\ EbsAnalyzed /\ EbsPricesStable
    /\ EbsInUnattached \cap EbsInLowIo # {}
    /\ EbsInLowIo \ EbsInUnattached # {}
    /\ ebs_ret.value.total_potential_monthly_savings < EbsPlainSum
    /\ ebs_ret.value.total_potential_monthly_savings
           > ebs_ret.value.unattached_volumes_monthly_cost


\* the volumes the last scan costed in each of its three sums, in order
EbsCostedLists ==
    <<ebs_ret.value.unattached_volumes,
      ebs_ret.value.low_io_volumes,
      low_io_only(ebs_ret.value.low_io_volumes,
                  {ebs_ret.value.unattached_volumes[i].VolumeId :
                      i \in 1..Len(ebs_ret.value.unattached_volumes)})>>

\* two volumes are billed alike: same type, size, IOPS and throughput (the region
\* is the scanner's)
SameBillingAttributes(v, w) ==
    /\ v.VolumeType = w.VolumeType /\ v.Size = w.Size
    /\ v.Iops = w.Iops /\ v.Throughput = w.Throughput

\* the position in the fleet of a listed volume
EbsPosition(volume) == CHOOSE k \in 1..Len(aws_ebs) : VolumeIds[k] = volume.VolumeId

\* the price lookup of the scan for the volume in the given sum failed
EbsLookupFailed(volume, pass) ==
    ebs_ret.use_api
    /\ FaultAt(ebs_ret.faults, EBSPricingSite(volume.VolumeId, pass)) # "ok"

\* C28 as stated: within one scan, two volumes with identical billing attributes
\* get the same estimated monthly cost, whatever the price lookups did
C28_AsStated_SameAttributesSameCost ==
    EbsAnalyzed =>
        \A pass \in 1..3 :
            \A i, j \in 1..Len(EbsCostedLists[pass]) :
                SameBillingAttributes(EbsCostedLists[pass][i], EbsCostedLists[pass][j])
                    => ebs_ret.costs[pass][i] = ebs_ret.costs[pass][j]

\* C28: within one sum of one scan, two volumes with identical billing attributes
\* get the same monthly cost unless the price lookup for the earlier one failed, so
\* that it was costed at the default table's price, and a lookup for the later one
\* (or for a volume in between) succeeded, so that it was costed at the live
\* price; with online lookup off, or when no lookup of the scan fails, the two
\* costs are equal
C28_SameCostUnlessEarlierLookupFailed ==
    EbsAnalyzed =>
        \A pass \in 1..3 :
            \A i, j \in 1..Len(EbsCostedLists[pass]) :
                (i < j /\ SameBillingAttributes(EbsCostedLists[pass][i],
                                                EbsCostedLists[pass][j]))
                => \/ ebs_ret.costs[pass][i] = ebs_ret.costs[pass][j]
                   \/ /\ ~EbsPricesStable
                      /\ EbsLookupFailed(EbsCostedLists[pass][i], pass)
                      /\ ebs_ret.costs[pass][i]
                             = EbsDefaultCost(EbsPosition(EbsCostedLists[pass][i]))
                      /\ ebs_ret.costs[pass][j]
                             = EbsLiveCost(EbsPosition(EbsCostedLists[pass][j]))

\* a scan with online lookup that costed two low-I/O volumes of the same type and
\* size differently: the first at the default price, its lookup having failed, the
\* second at the live price
C28_Witness ==
    /\ EbsAnalyzed /\ ebs_ret.use_api
    /\ Len(ebs_ret.value.low_io_volumes) = 2
    /\ SameBillingAttributes(ebs_ret.value.low_io_volumes[1],
                             ebs_ret.value.low_io_volumes[2])
    /\ EbsLookupFailed(ebs_ret.value.low_io_volumes[1], 2)
    /\ ebs_ret.costs[2][1] < ebs_ret.costs[2][2]
----------------------------------------------------------------------------
(* Properties of S3Scanner *)

S3Analyzed == s3_ret.op = "analyze_s3_buckets"

S3Summarised == s3_ret.op = "get_scan_summary"

\* positions of the buckets the last scan analysed: listed, and with a known region
S3AnalysedBuckets ==
    IF FaultAt(s3_ret.faults, S3ListSite) = "ok"
    THEN {k \in 1..Len(aws_s3) :
             FaultAt(s3_ret.faults, S3LocationSite(BucketNames[k])) = "ok"}
    ELSE {}

\* the AllRequests series the last scan received for the k-th bucket
S3RequestSeries(k) ==
    IF FaultAt(s3_ret.faults, S3RequestsSite(BucketNames[k])) = "ok"
    THEN aws_s3[k].requests ELSE <<>>

\* the entries of a finding list that carry the name of the k-th bucket
S3Entries(list, k) == {i \in 1..Len(list) : list[i].bucket_name = BucketNames[k]}

S3InUnused(k) == S3Entries(s3_scanner.unused_buckets, k) # {}
S3InWithoutMetrics(k) == S3Entries(s3_scanner.buckets_without_metrics, k) # {}

\* C7: every analysed bucket gets exactly one outcome.  Without request metrics
\* (no datapoint, or the metrics call failed) it is only in buckets_without_metrics
\* with status "metrics_not_enabled", whatever the provider counted; with metrics
\* and total requests <= request_threshold it is only in unused_buckets with status
\* "unused"; otherwise it is in neither list.  No bucket is in both lists, and the
\* summary's unused_buckets_monthly_cost and total_potential_monthly_savings are
\* the sum over unused_buckets alone
C7_S3ThreeWayOutcome ==
    /\ S3Analyzed =>
          \A k \in S3AnalysedBuckets :
              LET has_metrics == S3RequestSeries(k) # <<>>
                  total == SumSeq(S3RequestSeries(k))
                  unused == s3_scanner.unused_buckets
                  without == s3_scanner.buckets_without_metrics
              IN  /\ ~has_metrics =>
                         /\ Cardinality(S3Entries(without, k)) = 1
                         /\ \A i \in S3Entries(without, k) :
                                without[i].status = "metrics_not_enabled"
                         /\ ~S3InUnused(k)
                  /\ (has_metrics /\ total <= s3_scanner.request_threshold) =>
                         /\ Cardinality(S3Entries(unused, k)) = 1
                         /\ \A i \in S3Entries(unused, k) :
                                /\ unused[i].status = "unused"
                                /\ unused[i].total_requests = total
                         /\ ~S3InWithoutMetrics(k)
                  /\ (has_metrics /\ total > s3_scanner.request_threshold) =>
                         ~S3InUnused(k) /\ ~S3InWithoutMetrics(k)
    /\ S3Analyzed => s3_ret.value = s3_scanner.unused_buckets
    /\ \A k \in 1..Len(aws_s3) : ~(S3InUnused(k) /\ S3InWithoutMetrics(k))
    /\ S3Summarised =>
          /\ s3_ret.value.unused_buckets_monthly_cost
                 = SumField(s3_scanner.unused_buckets, "estimated_monthly_cost")
          /\ s3_ret.value.total_potential_monthly_savings
                 = SumField(s3_scanner.unused_buckets, "estimated_monthly_cost")
          /\ \A i \in 1..Len(s3_scanner.buckets_without_metrics) :
                 \A j \in 1..Len(s3_ret.value.unused_buckets) :
                     s3_ret.value.unused_buckets[j].bucket_name
                         # s3_scanner.buckets_without_metrics[i].bucket_name

\* a summary after a scan that found a bucket exactly at the threshold unused and a
\* bucket with a positive cost without metrics: the totals leave the latter out
C7_Witness ==
    /\ S3Summarised
    /\ \E i \in 1..Len(s3_scanner.unused_buckets) :
          s3_scanner.unused_buckets[i].total_requests = s3_scanner.request_threshold
    /\ \E i \in 1..Len(s3_scanner.buckets_without_metrics) :
          s3_scanner.buckets_without_metrics[i].estimated_monthly_cost > 0
    /\ s3_ret.value.total_potential_monthly_savings
           < SumField(s3_scanner.unused_buckets, "estimated_monthly_cost")
             + SumField(s3_scanner.buckets_without_metrics, "estimated_monthly_cost")

\* positions of the buckets the last scan listed and whose get_bucket_location
\* call failed
S3UnknownRegion ==
    IF FaultAt(s3_ret.faults, S3ListSite) = "ok"
    THEN {k \in 1..Len(aws_s3) :
             FaultAt(s3_ret.faults, S3LocationSite(BucketNames[k])) # "ok"}
    ELSE {}

\* the metrics calls the last scan made for the k-th bucket
S3MetricsCalls(k) ==
    Range(s3_ret.calls) \cap {S3RequestsSite(BucketNames[k]), S3SizeSite(BucketNames[k]),
                              S3CountSite(BucketNames[k])}

\* C27: in analyze_s3_buckets a listed bucket whose region is "unknown" (its
\* get_bucket_location call failed) is skipped: no metrics call is made for it and
\* it is in neither unused_buckets nor buckets_without_metrics; every other listed
\* bucket is still analysed: its request metrics are queried and it is in the list
\* its requests put it in
C27_UnknownRegionBucketIsSkipped ==
    S3Analyzed =>
        /\ \A k \in S3UnknownRegion :
              /\ S3MetricsCalls(k) = {}
              /\ ~S3InUnused(k)
              /\ ~S3InWithoutMetrics(k)
        /\ \A k \in S3AnalysedBuckets :
              /\ S3RequestsSite(BucketNames[k]) \in S3MetricsCalls(k)
              /\ S3InWithoutMetrics(k) <=> S3RequestSeries(k) = <<>>
              /\ S3InUnused(k) <=>
                     /\ S3RequestSeries(k) # <<>>
                     /\ SumSeq(S3RequestSeries(k)) <= s3_scanner.request_threshold

\* a scan that skipped its first bucket, one without any request, for its unknown
\* region and reported the second bucket as unused
C27_Witness ==
    /\ S3Analyzed
    /\ 1 \in S3UnknownRegion
    /\ aws_s3[1].requests = <<0, 0>>
    /\ 2 \in S3AnalysedBuckets
    /\ S3InUnused(2)
    /\ s3_ret.value # <<>>

----------------------------------------------------------------------------
(* Properties of the error handling at the provider boundary *)

\* C9 as stated: whatever listing or metrics call fails at the provider, every
\* analyze operation returns normally
C9_AsStated_NoProviderErrorPropagates ==
    /\ ec2_ret.outcome = "returned"
    /\ ebs_ret.outcome = "returned"
    /\ rds_ret.outcome = "returned"
    /\ s3_ret.outcome = "returned"

\* C10 as stated, for get_low_io_volumes: a metrics call that fails for one volume
\* leaves every other listed volume classified as without the failure (low I/O iff
\* its total I/O is below io_threshold)
C10_AsStated_MetricsFailureIsLocal ==
    (LowIoCalled /\ FaultAt(ebs_ret.faults, EBSListSite) = "ok") =>
        \A k \in 1..Len(aws_ebs) :
            (/\ FaultAt(ebs_ret.faults, EBSReadSite(VolumeIds[k])) = "ok"
             /\ FaultAt(ebs_ret.faults, EBSWriteSite(VolumeIds[k])) = "ok")
                => (EbsLowFlagged(k) <=> EbsTotalIo(k) < ebs_scanner.io_threshold)

----------------------------------------------------------------------------
(* Properties of the listing calls that fail with a provider client error *)

\* the last operation of a scanner is one of `ops` and its listing call at `site`
\* raised ClientError (throttling, access denied)
ListingDenied(ret, ops, site) ==
    ret.op \in ops /\ FaultAt(ret.faults, site) = ClientError

\* a finding list that is empty, with count 0 and total cost 0
NoFindings(findings) ==
    /\ findings = <<>>
    /\ Len(findings) = 0
    /\ SumField(findings, "estimated_monthly_cost") = 0

\* C11: when the listing call of an operation raises ClientError, the listing
\* operation returns [] and the analyze operation built on it returns normally
\* with no finding from that listing: the finding list is empty and its count and
\* its cost are 0 (for the EBS scanner, whose analysis is built on two listings,
\* this is the category of the listing that failed)
C11_DeniedListingGivesNoFindings ==
    /\ ListingDenied(ec2_ret, {"get_running_ec2_instances", "analyze_ec2_instances"},
                     EC2ListSite)
          => /\ ec2_ret.outcome = "returned"
             /\ NoFindings(ec2_ret.value)
             /\ ec2_ret.op = "analyze_ec2_instances" => NoFindings(ec2_scanner.idle_instances)
    /\ ListingDenied(rds_ret, {"get_rds_instances", "analyze_rds_instances"}, RDSListSite)
          => /\ rds_ret.outcome = "returned"
             /\ NoFindings(rds_ret.value)
             /\ rds_ret.op = "analyze_rds_instances" => NoFindings(rds_scanner.idle_instances)
    /\ ListingDenied(rds_ret, {"get_manual_snapshots", "find_old_snapshots"},
                     SnapshotListSite)
          => /\ rds_ret.outcome = "returned"
             /\ NoFindings(rds_ret.value)
             /\ rds_ret.op = "find_old_snapshots" => NoFindings(rds_scanner.old_snapshots)
    /\ ListingDenied(s3_ret, {"get_all_buckets", "analyze_s3_buckets"}, S3ListSite)
          => /\ s3_ret.outcome = "returned"
             /\ NoFindings(s3_ret.value)
             /\ s3_ret.op = "analyze_s3_buckets"
                   => /\ NoFindings(s3_scanner.unused_buckets)
                      /\ NoFindings(s3_scanner.buckets_without_metrics)
    /\ ListingDenied(ebs_ret, {"get_unattached_volumes"}, EBSUnattachedListSite)
          => ebs_ret.outcome = "returned" /\ ebs_ret.value = <<>>
    /\ ListingDenied(ebs_ret, {"get_low_io_volumes"}, EBSListSite)
          => ebs_ret.outcome = "returned" /\ ebs_ret.value = <<>>
    /\ ListingDenied(ebs_ret, {"analyze_ebs_volumes"}, EBSUnattachedListSite)
          => /\ ebs_ret.outcome = "returned"
             /\ ebs_ret.value.unattached_volumes = <<>>
             /\ ebs_ret.value.unattached_volumes_count = 0
             /\ ebs_ret.value.unattached_volumes_monthly_cost = 0
             /\ ebs_scanner.unattached_volumes = <<>>
    /\ ListingDenied(ebs_ret, {"analyze_ebs_volumes"}, EBSListSite)
          => /\ ebs_ret.outcome = "returned"
             /\ ebs_ret.value.low_io_volumes = <<>>
             /\ ebs_ret.value.low_io_volumes_count = 0
             /\ ebs_ret.value.low_io_volumes_monthly_cost = 0
             /\ ebs_scanner.low_io_volumes = <<>>
             /\ ebs_ret.value.total_potential_monthly_savings
                    = ebs_ret.value.unattached_volumes_monthly_cost

\* an analysis of a provider that holds an attached low-I/O volume and whose
\* listing of all volumes was denied: no low-I/O finding, count and cost 0
C11_Witness ==
    /\ ListingDenied(ebs_ret, {"analyze_ebs_volumes"}, EBSListSite)
    /\ \E k \in 1..Len(aws_ebs) :
          /\ aws_ebs[k].State = "in-use"
          /\ total_io_of(aws_ebs[k].read_ops, aws_ebs[k].write_ops) < ebs_scanner.io_threshold
    /\ ebs_ret.value.low_io_volumes_count = 0
    /\ ebs_ret.value.low_io_volumes_monthly_cost = 0

----------------------------------------------------------------------------
(* Properties: the pricing modules *)

ClientLookupOps == {"client.get_ec2_price_per_hour", "client.get_rds_price_per_hour", "client.get_ebs_price_per_gb"}

\* one client lookup, seen through the cache before it, the cache after it and
\* what it returned
LookupRespectsCache(cache, cache_after, ret) ==
    IF ret.key \in DOMAIN cache
    THEN /\ ret.calls = <<>>
         /\ ret.outcome = "returned"
         /\ ret.value = Some(cache[ret.key])
         /\ cache_after = cache
    ELSE /\ ret.calls = <<PricingSite>>
         /\ IF ret.faults = {} /\ ~ret.value.none
            THEN cache_after = cache @@ (ret.key :> ret.value.val)
            ELSE /\ ret.value.none
                 /\ cache_after = cache

\* a cache only grows, and only by a call that reached the provider and found a price
CacheGrowsBySuccess(cache, cache_after, ret) ==
    /\ \A k \in DOMAIN cache : k \in DOMAIN cache_after /\ cache_after[k] = cache[k]
    /\ cache_after # cache => /\ ret.faults = {}
                              /\ ret.calls # <<>>
                              /\ Cardinality(DOMAIN cache_after) = Cardinality(DOMAIN cache) + 1

\* C12: across any sequence of price lookups a cache gains an entry only by a live
\* lookup of that key that succeeded; a lookup that finds no product, fails or raises
\* leaves the cache as it was and the next lookup of the key calls the Price List API
\* again; a cached key is answered with the cached price, without a call, ever after
C12_CacheHoldsOnlySuccessfulLookups ==
    [][/\ CacheGrowsBySuccess(ec2_price_cache, ec2_price_cache', pricing_ret')
       /\ CacheGrowsBySuccess(rds_price_cache, rds_price_cache', pricing_ret')
       /\ CacheGrowsBySuccess(ebs_price_cache, ebs_price_cache', pricing_ret')
       /\ pricing_ret'.op = "client.get_ec2_price_per_hour"
             => LookupRespectsCache(ec2_price_cache, ec2_price_cache', pricing_ret')
       /\ pricing_ret'.op = "client.get_rds_price_per_hour"
             => LookupRespectsCache(rds_price_cache, rds_price_cache', pricing_ret')
       /\ pricing_ret'.op = "client.get_ebs_price_per_gb"
             => LookupRespectsCache(ebs_price_cache, ebs_price_cache', pricing_ret')]_vars

\* a lookup answered from the cache while the provider would have failed, in a
\* process whose earlier lookup of another key found nothing and cached nothing
C12_Witness ==
    /\ pricing_ret.op = "client.get_ebs_price_per_gb"
    /\ pricing_ret.calls = <<>>
    /\ pricing_ret.faults # {}
    /\ pricing_ret.key \in DOMAIN ebs_price_cache
    /\ <<"ebs", "xx1", PricingRegion>> \notin DOMAIN ebs_price_cache

\* the price the live lookup of a resolver call supplies, None when there is none:
\* not attempted, no client, a failed call, or no product; a cached key counts as
\* found whatever the provider would answer now
LivePrice(cache, key, listed, ret) ==
    IF ~ret.use_api \/ ret.faults = PricingFault(ConstructionError) THEN None
    ELSE IF key \in DOMAIN cache THEN Some(cache[key])
    ELSE IF ret.faults = {} THEN listed
    ELSE None

\* live price, else the table entry of the key, else the entry of the default key
FallbackChain(live, table, key, default_key) ==
    IF ~live.none THEN live.val
    ELSE IF key \in DOMAIN table THEN table[key]
    ELSE table[default_key]

ResolvedEC2(cache, ret) ==
    FallbackChain(LivePrice(cache, <<"ec2", ret.args.instance_type, PricingRegion, "Linux">>,
                            Some(PriceListEC2(ret.args.instance_type)), ret),
                  DEFAULT_EC2_PRICES, ret.args.instance_type, "t3.medium")

ResolvedEBS(cache, ret) ==
    FallbackChain(LivePrice(cache, <<"ebs", ret.args.volume_type, PricingRegion>>,
                            PriceListEBS(ret.args.volume_type), ret),
                  DEFAULT_EBS_PRICES, ret.args.volume_type, "gp2")

\* the RDS table holds Single-AZ prices: an entry taken from it is doubled for a
\* Multi-AZ instance, a live price is the provider's price of the Multi-AZ product
ResolvedRDS(cache, ret) ==
    LET deployment_option == IF ret.args.multi_az THEN "Multi-AZ" ELSE "Single-AZ"
        live == LivePrice(cache, <<"rds_postgres", ret.args.db_instance_class,
                                   PricingRegion, deployment_option>>,
                          Some(PriceListRDS(ret.args.db_instance_class, deployment_option)),
                          ret)
        entry == FallbackChain(None, DEFAULT_RDS_POSTGRES_PRICES,
                               ret.args.db_instance_class, "db.t4g.medium")
    IN  IF ~live.none THEN live.val
        ELSE IF ret.args.multi_az THEN 2 * entry ELSE entry

ResolvedS3(ret) ==
    FallbackChain(None, DEFAULT_S3_STORAGE_PRICES,
                  storage_class_upper(ret.args.storage_class), "STANDARD")

ResolverOps == {"get_ec2_price_per_hour", "get_rds_price_per_hour", "get_ebs_cost_per_gb", "get_storage_price_per_gb"}

\* C13: every pricing resolver returns the live price when use_api is true and the
\* live lookup supplies one; otherwise (use_api false, when no call is made, or the
\* lookup failed or found nothing) the default table entry of the same key; and when
\* the table has no such key the entry of the default key: t3.medium for EC2,
\* db.t4g.medium for RDS, gp2 for EBS, STANDARD for S3
C13_ResolversFollowFallbackChain ==
    [][/\ pricing_ret'.op = "get_ec2_price_per_hour"
             => pricing_ret'.value = ResolvedEC2(ec2_price_cache, pricing_ret')
       /\ pricing_ret'.op = "get_rds_price_per_hour"
             => pricing_ret'.value = ResolvedRDS(rds_price_cache, pricing_ret')
       /\ pricing_ret'.op = "get_ebs_cost_per_gb"
             => pricing_ret'.value = ResolvedEBS(ebs_price_cache, pricing_ret')
       /\ pricing_ret'.op = "get_storage_price_per_gb"
             => pricing_ret'.value = ResolvedS3(pricing_ret')
       /\ pricing_ret'.op \in ResolverOps
             => /\ pricing_ret'.outcome = "returned"
                /\ ~pricing_ret'.use_api => pricing_ret'.calls = <<>>]_vars

\* a resolver asked for a type no table knows, whose live lookup was made and failed:
\* the price is the t3.medium entry
C13_Witness ==
    /\ pricing_ret.op = "get_ec2_price_per_hour"
    /\ pricing_ret.args.instance_type \notin DOMAIN DEFAULT_EC2_PRICES
    /\ pricing_ret.use_api
    /\ pricing_ret.calls = <<PricingSite>>
    /\ pricing_ret.faults = PricingFault(ClientError)
    /\ pricing_ret.value = DEFAULT_EC2_PRICES["t3.medium"]

CostOps == {"calculate_ec2_monthly_cost", "calculate_ebs_monthly_cost", "calculate_rds_monthly_cost", "calculate_snapshot_monthly_cost", "calculate_bucket_monthly_cost"}

\* the live lookup of the call was attempted and supplied no price
LookupFailed(ret) ==
    /\ ret.use_api
    /\ ret.faults # {}
    /\ ret.calls # <<>> \/ ret.faults = PricingFault(ConstructionError)

\* the cost computed from the default tables alone
DefaultCost(ret) ==
    CASE ret.op = "calculate_ec2_monthly_cost" ->
            RoundHalfEven(FallbackChain(None, DEFAULT_EC2_PRICES, ret.args.instance_type,
                                        "t3.medium") * HOURS_PER_MONTH, 100)
      [] ret.op = "calculate_ebs_monthly_cost" ->
            RoundHalfEven(ret.args.size_gb * FallbackChain(None, DEFAULT_EBS_PRICES,
                                                           ret.args.volume_type, "gp2")
                          + ebs_iops_cost(ret.args.volume_type, ret.args.iops)
                          + ebs_throughput_cost(ret.args.volume_type,
                                                ret.args.throughput_mbps), 100)
      [] ret.op = "calculate_rds_monthly_cost" ->
            RoundHalfEven((IF ret.args.multi_az THEN 2 ELSE 1)
                          * (FallbackChain(None, DEFAULT_RDS_POSTGRES_PRICES,
                                           ret.args.db_instance_class, "db.t4g.medium")
                             * HOURS_PER_MONTH
                             + get_rds_storage_price_per_gb(ret.args.storage_type)
                               * ret.args.allocated_storage_gb), 100)
      [] ret.op = "calculate_snapshot_monthly_cost" ->
            RoundHalfEven(DEFAULT_SNAPSHOT_PRICE_PER_GB * ret.args.snapshot_size_gb, 100)
      [] ret.op = "calculate_bucket_monthly_cost" ->
            RoundHalfEven(ret.args.size_bytes * DEFAULT_S3_STORAGE_PRICES["STANDARD"],
                          1024 * 100)

\* C14: the five cost functions never raise; whatever the live lookup does (price
\* found, no product, provider error, unexpected exception, no client) they return
\* a cost, and when the lookup supplied nothing or was not attempted the cost is the
\* one derived from the default tables
C14_CostFunctionsNeverRaise ==
    pricing_ret.op \in CostOps =>
        /\ pricing_ret.outcome = "returned"
        /\ pricing_ret.value \in Nat
        /\ (LookupFailed(pricing_ret) \/ ~pricing_ret.use_api)
              => pricing_ret.value = DefaultCost(pricing_ret)

\* a cost returned although the live lookup raised an exception that is not a
\* provider error
C14_Witness ==
    /\ pricing_ret.op = "calculate_ebs_monthly_cost"
    /\ pricing_ret.use_api
    /\ pricing_ret.faults = PricingFault(UnexpectedError)
    /\ pricing_ret.calls = <<PricingSite>>
    /\ pricing_ret.outcome = "returned"
    /\ pricing_ret.value = DefaultCost(pricing_ret)

Max(a, b) == IF a >= b THEN a ELSE b

\* an absent count is no count
Provisioned(n) == IF n.none THEN 0 ELSE n.val

\* the charges of the price sheet, in 1/10000 USD: all provisioned IOPS for io1 and
\* io2, the IOPS above 3000 and the MB/s above 125 for gp3, nothing otherwise
IopsCharge(volume_type, iops) ==
    IF volume_type \in {"io1", "io2"} THEN Provisioned(iops) * 650
    ELSE IF volume_type = "gp3" THEN Max(0, Provisioned(iops) - 3000) * 50
    ELSE 0

ThroughputCharge(volume_type, throughput_mbps) ==
    IF volume_type = "gp3" THEN Max(0, Provisioned(throughput_mbps) - 125) * 600
    ELSE 0

PerGBRate(volume_type) ==
    FallbackChain(None, DEFAULT_EBS_PRICES, volume_type, "gp2")

EbsCostCalled == pricing_ret.op = "calculate_ebs_monthly_cost"

\* C15: with the default prices and no live lookup calculate_ebs_monthly_cost is
\* size * per-GB rate + IOPS charge + throughput charge, returned rounded to cents
\* as every monetary result is; gp3 with
\* 100 GB costs 18.00 at 5000 IOPS and 30.50 at 500 MB/s, and exactly its storage
\* charge at or below the free allowances
C15_EbsCostFormula ==
    EbsCostCalled /\ ~pricing_ret.use_api =>
        LET a == pricing_ret.args
            storage == a.size_gb * PerGBRate(a.volume_type)
        IN  /\ pricing_ret.outcome = "returned"
            /\ pricing_ret.value =
                  RoundHalfEven(storage + IopsCharge(a.volume_type, a.iops)
                                + ThroughputCharge(a.volume_type, a.throughput_mbps), 100)
            /\ (a.volume_type = "gp3" /\ a.size_gb = 100 /\ a.iops = Some(5000)
                  /\ a.throughput_mbps = None) => pricing_ret.value = 1800
            /\ (a.volume_type = "gp3" /\ a.size_gb = 100 /\ a.iops = None
                  /\ a.throughput_mbps = Some(500)) => pricing_ret.value = 3050
            /\ (a.volume_type = "gp3" /\ Provisioned(a.iops) <= 3000
                  /\ Provisioned(a.throughput_mbps) <= 125)
                  => pricing_ret.value = RoundHalfEven(storage, 100)
            /\ pricing_ret.value >= RoundHalfEven(storage, 100)

\* the 18.00 example: gp3, 100 GB, 5000 IOPS, costed from the default table
C15_Witness ==
    /\ EbsCostCalled
    /\ ~pricing_ret.use_api
    /\ pricing_ret.args = [volume_type |-> "gp3", size_gb |-> 100, iops |-> Some(5000),
                           throughput_mbps |-> None]
    /\ pricing_ret.value = 1800

RdsCostCalled == pricing_ret.op = "calculate_rds_monthly_cost"

RdsDeployment(ret) == IF ret.args.multi_az THEN "Multi-AZ" ELSE "Single-AZ"

RdsCacheKey(ret) ==
    <<"rds_postgres", ret.args.db_instance_class, PricingRegion, RdsDeployment(ret)>>

\* the live lookup supplied the hourly rate of the call (a successful lookup leaves
\* its key in the cache; a failed one does not)
RdsLiveSupplied(ret) ==
    /\ ret.use_api
    /\ ret.faults # PricingFault(ConstructionError)
    /\ RdsCacheKey(ret) \in DOMAIN rds_price_cache

\* the Single-AZ entry of the default table, db.t4g.medium for an unknown class
RdsDefaultRate(ret) ==
    FallbackChain(None, DEFAULT_RDS_POSTGRES_PRICES, ret.args.db_instance_class,
                  "db.t4g.medium")

\* the storage charge of a Single-AZ instance, in 1/10000 USD
RdsStorageCharge(ret) ==
    ret.args.allocated_storage_gb * get_rds_storage_price_per_gb(ret.args.storage_type)

Twice(multi_az, x) == IF multi_az THEN 2 * x ELSE x

\* C16: calculate_rds_monthly_cost returns hourly rate * 730 + storage charge,
\* rounded to cents.  The storage charge is doubled for a Multi-AZ instance and not
\* for a Single-AZ one.  An hourly rate taken from the default table (db.t4g.medium
\* for an unknown class) is doubled for Multi-AZ; a rate supplied by the live lookup
\* is the provider's price of the product with that deployment option, used as is
C16_RdsCostAndMultiAZ ==
    RdsCostCalled =>
        LET a == pricing_ret.args
            hourly_rate == IF RdsLiveSupplied(pricing_ret)
                           THEN PriceListRDS(a.db_instance_class, RdsDeployment(pricing_ret))
                           ELSE Twice(a.multi_az, RdsDefaultRate(pricing_ret))
        IN  /\ pricing_ret.outcome = "returned"
            /\ RdsLiveSupplied(pricing_ret)
                  => rds_price_cache[RdsCacheKey(pricing_ret)] = hourly_rate
            /\ pricing_ret.value =
                  RoundHalfEven(hourly_rate * HOURS_PER_MONTH
                                + Twice(a.multi_az, RdsStorageCharge(pricing_ret)), 100)

\* a Multi-AZ instance with storage whose hourly rate came from the live lookup
C16_Witness ==
    /\ RdsCostCalled
    /\ pricing_ret.args.multi_az
    /\ pricing_ret.args.allocated_storage_gb > 0
    /\ RdsLiveSupplied(pricing_ret)
    /\ pricing_ret.calls = <<PricingSite>>
    /\ pricing_ret.value =
          RoundHalfEven(PriceListRDS(pricing_ret.args.db_instance_class, "Multi-AZ")
                        * HOURS_PER_MONTH + 2 * RdsStorageCharge(pricing_ret), 100)

\* C16 as stated: whichever source supplied the hourly rate, the cost of a Multi-AZ
\* instance is built from twice the Single-AZ rate of that source and twice the
\* storage charge
C16_AsStated_MultiAZDoublesEverySource ==
    (RdsCostCalled /\ pricing_ret.args.multi_az) =>
        pricing_ret.value =
            RoundHalfEven(2 * (IF RdsLiveSupplied(pricing_ret)
                               THEN PriceListRDS(pricing_ret.args.db_instance_class,
                                                 "Single-AZ")
                               ELSE RdsDefaultRate(pricing_ret)) * HOURS_PER_MONTH
                          + 2 * RdsStorageCharge(pricing_ret), 100)

----------------------------------------------------------------------------
(* Properties: what a scanner holds and reports across its scans *)

\* every finding of the list is about a resource the provider holds, and no
\* resource has two findings
FreshFindings(findings, key, ids, fleet) ==
    /\ \A i \in 1..Len(findings) : \E k \in 1..Len(fleet) : findings[i][key] = ids[k]
    /\ \A i, j \in 1..Len(findings) : i # j => findings[i][key] # findings[j][key]

\* the lists a scanner holds after its most recent analyze call
HeldFindingsAreOfLastScan ==
    /\ ec2_ret.op = "analyze_ec2_instances"
          => /\ FreshFindings(ec2_scanner.idle_instances, "instance_id", InstanceIds, aws_ec2)
             /\ ec2_ret.outcome = "returned" => ec2_scanner.idle_instances = ec2_ret.value
    /\ rds_ret.op = "analyze_rds_instances"
          => /\ FreshFindings(rds_scanner.idle_instances, "db_instance_id", DbInstanceIds,
                              aws_rds)
             /\ rds_scanner.idle_instances = rds_ret.value
    /\ rds_ret.op = "find_old_snapshots"
          => /\ FreshFindings(rds_scanner.old_snapshots, "snapshot_id", SnapshotIds,
                              aws_snapshots)
             /\ rds_scanner.old_snapshots = rds_ret.value
    /\ s3_ret.op = "analyze_s3_buckets"
          => /\ FreshFindings(s3_scanner.unused_buckets \o s3_scanner.buckets_without_metrics,
                              "bucket_name", BucketNames, aws_s3)
             /\ s3_scanner.unused_buckets = s3_ret.value
    /\ ebs_ret.op = "analyze_ebs_volumes"
          => /\ FreshFindings(ebs_scanner.unattached_volumes, "VolumeId", VolumeIds, aws_ebs)
             /\ FreshFindings(ebs_scanner.low_io_volumes, "VolumeId", VolumeIds, aws_ebs)
             /\ ebs_scanner.unattached_volumes = ebs_ret.value.unattached_volumes
             /\ ebs_scanner.low_io_volumes = ebs_ret.value.low_io_volumes

AnalyzeOps == {"analyze_ec2_instances", "analyze_rds_instances", "find_old_snapshots", "analyze_s3_buckets", "analyze_ebs_volumes"}

\* no call of the Price List API is failing
PricingFaultFree(faults) == \A f \in faults : f.site[1] # "get_products"

\* the same analyze operation called again with the same argument while the
\* provider holds the same data and answers every call as before
SameScanAgain(ret, ret_after) ==
    /\ ret.op \in AnalyzeOps
    /\ ret_after.op = ret.op
    /\ ret.outcome = "returned"
    /\ ret_after.use_api = ret.use_api
    /\ ret_after.faults = ret.faults

\* every price of the two scans resolves the same way, and the clock reads the same
StablePricesAndClock(ret, ret_after) ==
    /\ ret.use_api => PricingFaultFree(ret.faults)
    /\ ret.op = "find_old_snapshots"
          => ret_after.now = ret.now /\ ret_after.now_at = ret.now_at

ProviderData == <<aws_ec2, aws_rds, aws_snapshots, aws_ebs, aws_s3>>

\* the provider calls that read: listings, descriptions, metric statistics, the
\* price list and the caller's identity
ReadingCalls ==
    {"describe_instances", "describe_db_instances", "describe_db_snapshots",
     "describe_volumes", "list_buckets", "get_bucket_location", "get_products",
     "get_caller_identity", "CPUUtilization", "DatabaseConnections", "VolumeReadOps",
     "VolumeWriteOps", "AllRequests", "BucketSizeBytes", "NumberOfObjects"}

OnlyReads(ret) == \A i \in 1..Len(ret.calls) : ret.calls[i][1] \in ReadingCalls

\* C18: no operation of a scanner or of main changes what the provider holds:
\* instances, databases, snapshots, volumes and buckets stay as they are across
\* every step, and every call an operation issues is a list, describe or get call
C18_ProviderStateIsNeverModified ==
    [][/\ ProviderData' = ProviderData
       /\ OnlyReads(ec2_ret') /\ OnlyReads(rds_ret') /\ OnlyReads(ebs_ret')
       /\ OnlyReads(s3_ret')]_vars

\* main has scanned two instances, reading their metrics, and reported one finding
C18_Witness ==
    /\ ec2_ret.op = "main"
    /\ ec2_ret.value = 0
    /\ Len(aws_ec2) = 2
    /\ Len(ec2_ret.calls) >= 4
    /\ ~ec2_ret.ec2.none
    /\ ec2_ret.ec2.val.idle_instances_count = 1

\* what a reducer must answer for a series: no value for an empty one, else a value
\* that is the sum of the samples divided by their number (so the sample itself for
\* a series of one, and 0, not the absent value, for a series of zeros)
IsMeanOf(value, datapoints) ==
    IF Len(datapoints) = 0 THEN value = None
    ELSE /\ value # None
         /\ ~value.none
         /\ value.num * Len(datapoints) = SumSeq(datapoints) * value.den
         /\ Len(datapoints) = 1 => value.num = datapoints[1] * value.den
         /\ (\A i \in 1..Len(datapoints) : datapoints[i] = 0) => value.num = 0

\* C19: calculate_average_cpu and calculate_average return None for an empty series,
\* a value distinct from None (0) for a series of zeros, the sample for a series of
\* one sample, and the sum divided by the count for every non-empty series
C19_ReducersReturnMeanOrNoData ==
    /\ ec2_ret.op = "calculate_average_cpu"
          => IsMeanOf(ec2_ret.value, ec2_ret.args.datapoints)
    /\ rds_ret.op = "calculate_average"
          => IsMeanOf(rds_ret.value, rds_ret.args.datapoints)

\* a series of zeros reduced to 0 by the EC2 reducer
C19_Witness ==
    /\ ec2_ret.op = "calculate_average_cpu"
    /\ ec2_ret.args.datapoints = <<0, 0>>
    /\ ~ec2_ret.value.none
    /\ ec2_ret.value.num = 0

\* the summary carries a scan timestamp and the given configuration entries
Echoes(summary, configuration) ==
    /\ "scan_timestamp" \in DOMAIN summary
    /\ \A k \in DOMAIN configuration :
          k \in DOMAIN summary /\ summary[k] = configuration[k]

\* C20 for the scanners that have a get_scan_summary operation: the summary carries
\* the time of the call and the region, the lookback days and every threshold the
\* scanner was constructed with, whatever scans ran before
SummaryEchoesConfiguration ==
    /\ ec2_ret.op = "get_scan_summary"
          => /\ Echoes(ec2_ret.value, [region |-> "us-east-1", analysis_period_days |-> 14,
                                       idle_threshold_percent |-> 500])
             /\ ec2_ret.value.scan_timestamp = clock
    /\ rds_ret.op = "get_scan_summary"
          => /\ Echoes(rds_ret.value, [region |-> "us-east-1", analysis_period_days |-> 14,
                                       cpu_threshold_percent |-> 500,
                                       connections_threshold |-> 100,
                                       snapshot_age_threshold_days |-> 2])
             /\ rds_ret.value.scan_timestamp = clock
    /\ s3_ret.op = "get_scan_summary"
          => /\ Echoes(s3_ret.value, [region |-> "us-east-1", analysis_period_days |-> 30,
                                      request_threshold |-> 10])
             /\ s3_ret.value.scan_timestamp = clock
    /\ (ec2_ret.op = "main" /\ ec2_ret.value = 0)
          => /\ ec2_ret.ec2 # None
             /\ Echoes(ec2_ret.ec2.val, [region |-> "us-east-1", analysis_period_days |-> 7,
                                         idle_threshold_percent |-> 500])

\* C20 as stated: the summary of every scanner, the result of analyze_ebs_volumes
\* for the EBS scanner, carries a scan timestamp and the configuration
C20_AsStated_EverySummaryEchoesConfiguration ==
    /\ SummaryEchoesConfiguration
    /\ ebs_ret.op = "analyze_ebs_volumes"
          => Echoes(ebs_ret.value, [region |-> ebs_scanner.region,
                                    analysis_period_days |-> ebs_scanner.days,
                                    io_threshold |-> ebs_scanner.io_threshold])


\* the positions a listing call of a scan returned: all of them, or none when the
\* call failed
ListedBy(ret, site, n) == IF FaultAt(ret.faults, site) = "ok" THEN 1..n ELSE {}

\* every finding of the list is about a listed resource, no resource has two
\* findings in it, and the list is not longer than the listing
FindingsWithin(findings, key, ids, listed) ==
    /\ \A i \in 1..Len(findings) : \E k \in listed : findings[i][key] = ids[k]
    /\ \A i, j \in 1..Len(findings) : i # j => findings[i][key] # findings[j][key]
    /\ Len(findings) <= Cardinality(listed)

\* the unattached volumes among the given positions
Unattached(listed) == {k \in listed : aws_ebs[k].State = "available"}

\* C29: after every analyze call, each finding list of the scanner refers only to
\* resources the listing call of that scan returned, holds a resource at most once
\* and is not longer than that listing; the two EBS lists and the two S3 lists
\* satisfy this each on its own, the EBS lists each against its own listing call
C29_FindingsAreOfListedResources ==
    /\ ec2_ret.op = "analyze_ec2_instances"
          => FindingsWithin(ec2_scanner.idle_instances, "instance_id", InstanceIds,
                            ListedBy(ec2_ret, EC2ListSite, Len(aws_ec2)))
    /\ rds_ret.op = "analyze_rds_instances"
          => FindingsWithin(rds_scanner.idle_instances, "db_instance_id", DbInstanceIds,
                            ListedBy(rds_ret, RDSListSite, Len(aws_rds)))
    /\ rds_ret.op = "find_old_snapshots"
          => FindingsWithin(rds_scanner.old_snapshots, "snapshot_id", SnapshotIds,
                            ListedBy(rds_ret, SnapshotListSite, Len(aws_snapshots)))
    /\ ebs_ret.op = "analyze_ebs_volumes"
          => /\ FindingsWithin(ebs_scanner.unattached_volumes, "VolumeId", VolumeIds,
                    Unattached(ListedBy(ebs_ret, EBSUnattachedListSite, Len(aws_ebs))))
             /\ FindingsWithin(ebs_scanner.low_io_volumes, "VolumeId", VolumeIds,
                               ListedBy(ebs_ret, EBSListSite, Len(aws_ebs)))
    /\ s3_ret.op = "analyze_s3_buckets"
          => /\ FindingsWithin(s3_scanner.unused_buckets, "bucket_name", BucketNames,
                               ListedBy(s3_ret, S3ListSite, Len(aws_s3)))
             /\ FindingsWithin(s3_scanner.buckets_without_metrics, "bucket_name",
                               BucketNames, ListedBy(s3_ret, S3ListSite, Len(aws_s3)))

\* an EBS scan whose second listing call failed: the unattached list holds every
\* listed volume, the low-I/O list nothing, although the provider holds volumes
\* without any I/O
C29_Witness ==
    /\ ebs_ret.op = "analyze_ebs_volumes"
    /\ FaultAt(ebs_ret.faults, EBSListSite) # "ok"
    /\ Len(ebs_scanner.unattached_volumes) = MaxResources
    /\ ebs_scanner.low_io_volumes = <<>>

----------------------------------------------------------------------------
(* Properties of the scan summaries *)

\* the cost a finding carries, 0 when it carries none
CostAt(list, i) ==
    IF "estimated_monthly_cost" \in DOMAIN list[i] THEN list[i].estimated_monthly_cost ELSE 0

RECURSIVE TotalTo(_, _)
TotalTo(list, n) == IF n = 0 THEN 0 ELSE TotalTo(list, n - 1) + CostAt(list, n)

\* count and cost of one category of a summary are those of its list
CategoryAgrees(count, cost, list) ==
    /\ count = Cardinality(DOMAIN list)
    /\ cost = TotalTo(list, Len(list))

\* the ids a finding list names under the given key
IdsIn(list, key) == {list[i][key] : i \in 1..Len(list)}

Ec2Summarised == ec2_ret.op = "get_scan_summary"
RdsSummarised == rds_ret.op = "get_scan_summary"

\* what the provider holds says the k-th resource is idle (unused)
Ec2IdleByData(k) ==
    aws_ec2[k][2] # <<>> /\ SumSeq(aws_ec2[k][2]) <= 500 * Len(aws_ec2[k][2])
RdsIdleByData(k) ==
    /\ aws_rds[k].status = "available"
    /\ aws_rds[k].cpu # <<>> /\ aws_rds[k].connections # <<>>
    /\ SumSeq(aws_rds[k].cpu) <= 500 * Len(aws_rds[k].cpu)
    /\ SumSeq(aws_rds[k].connections) <= 100 * Len(aws_rds[k].connections)
S3UnusedByData(k) ==
    aws_s3[k].requests # <<>> /\ SumSeq(aws_s3[k].requests) <= 10

\* a summary asked for before any operation or assignment on the scanner
FirstSummary(scanner, ret, ret_after, lists) ==
    /\ Constructed(scanner)
    /\ ret = NoReturn
    /\ ret_after.op = "get_scan_summary"
    /\ \A l \in lists : scanner[l] = <<>>

SummaryTotalsAgree ==
    /\ Ec2Summarised =>
          LET v == ec2_ret.value
          IN  /\ v.idle_instances = ec2_scanner.idle_instances
              /\ CategoryAgrees(v.idle_instances_count, v.idle_instances_monthly_cost,
                                v.idle_instances)
              /\ \A k \in 1..Len(aws_ec2) :
                    ~Ec2IdleByData(k) =>
                        InstanceIds[k] \notin IdsIn(v.idle_instances, "instance_id")
    /\ RdsSummarised =>
          LET v == rds_ret.value
          IN  /\ v.idle_instances = rds_scanner.idle_instances
              /\ v.old_snapshots = rds_scanner.old_snapshots
              /\ CategoryAgrees(v.idle_instances_count, v.idle_instances_monthly_cost,
                                v.idle_instances)
              /\ CategoryAgrees(v.old_snapshots_count, v.old_snapshots_monthly_cost,
                                v.old_snapshots)
              /\ v.total_potential_monthly_savings
                    = v.idle_instances_monthly_cost + v.old_snapshots_monthly_cost
              /\ \A k \in 1..Len(aws_rds) :
                    ~RdsIdleByData(k) =>
                        DbInstanceIds[k] \notin IdsIn(v.idle_instances, "db_instance_id")
    /\ S3Summarised =>
          LET v == s3_ret.value
          IN  /\ v.unused_buckets = s3_scanner.unused_buckets
              /\ v.buckets_without_metrics = s3_scanner.buckets_without_metrics
              /\ CategoryAgrees(v.unused_buckets_count, v.unused_buckets_monthly_cost,
                                v.unused_buckets)
              /\ v.buckets_without_metrics_count = Cardinality(DOMAIN v.buckets_without_metrics)
              /\ v.total_potential_monthly_savings = v.unused_buckets_monthly_cost
              /\ \A k \in 1..Len(aws_s3) :
                    ~S3UnusedByData(k) =>
                        BucketNames[k] \notin IdsIn(v.unused_buckets, "bucket_name")

FirstSummaryIsEmpty ==
    /\ FirstSummary(ec2_scanner, ec2_ret, ec2_ret', {"idle_instances"}) =>
          /\ ec2_ret'.value.idle_instances_count = 0
          /\ ec2_ret'.value.idle_instances_monthly_cost = 0
    /\ FirstSummary(rds_scanner, rds_ret, rds_ret', {"idle_instances", "old_snapshots"}) =>
          /\ rds_ret'.value.idle_instances_count = 0
          /\ rds_ret'.value.idle_instances_monthly_cost = 0
          /\ rds_ret'.value.old_snapshots_count = 0
          /\ rds_ret'.value.old_snapshots_monthly_cost = 0
          /\ rds_ret'.value.total_potential_monthly_savings = 0
    /\ FirstSummary(s3_scanner, s3_ret, s3_ret', {"unused_buckets", "buckets_without_metrics"}) =>
          /\ s3_ret'.value.unused_buckets_count = 0
          /\ s3_ret'.value.unused_buckets_monthly_cost = 0
          /\ s3_ret'.value.buckets_without_metrics_count = 0
          /\ s3_ret'.value.total_potential_monthly_savings = 0

\* C21: in every summary of the EC2, RDS and S3 scanner each category count is the
\* length of that category's list and each category cost is the sum of the
\* estimated_monthly_cost of the findings of that list, a finding without one
\* counting as 0; the RDS total is the idle-instance cost plus the old-snapshot
\* cost; a resource that is active, has no data or has no metrics is in no costed
\* list; the summary of a scanner that has not scanned yet has zero counts and costs
C21_SummaryCountsAndCostsMatchLists ==
    []SummaryTotalsAgree /\ [][FirstSummaryIsEmpty]_vars

\* an RDS summary with an idle instance and an old snapshot, both with a cost, whose
\* total is larger than either category
C21_Witness ==
    /\ RdsSummarised
    /\ rds_ret.value.idle_instances_count > 0
    /\ rds_ret.value.old_snapshots_count > 0
    /\ rds_ret.value.idle_instances_monthly_cost > 0
    /\ rds_ret.value.old_snapshots_monthly_cost > 0
    /\ rds_ret.value.total_potential_monthly_savings
          > rds_ret.value.idle_instances_monthly_cost

\* the step leaves the list of the RDS scanner as it is
RdsKeeps(list) == rds_scanner'[list] = rds_scanner[list]

\* the frame of the three RDS operations: an operation that has just returned has
\* replaced its own list by what it returned and left the other list alone; the
\* summary has changed neither and reports both as they were
RdsOperationsKeepTheOtherList ==
    /\ rds_ret'.op = "analyze_rds_instances"
          => /\ rds_scanner'.idle_instances = rds_ret'.value
             /\ RdsKeeps("old_snapshots")
    /\ rds_ret'.op = "find_old_snapshots"
          => /\ rds_scanner'.old_snapshots = rds_ret'.value
             /\ RdsKeeps("idle_instances")
    /\ rds_ret'.op = "get_scan_summary"
          => /\ RdsKeeps("idle_instances") /\ RdsKeeps("old_snapshots")
             /\ rds_ret'.value.idle_instances = rds_scanner.idle_instances
             /\ rds_ret'.value.old_snapshots = rds_scanner.old_snapshots

\* C30: on an RDSScanner, analyze_rds_instances replaces idle_instances and leaves
\* old_snapshots unchanged, find_old_snapshots replaces old_snapshots and leaves
\* idle_instances unchanged, and get_scan_summary changes neither, so that the
\* summary reports the idle instances of the latest analyze_rds_instances call
\* together with the old snapshots of the latest find_old_snapshots call
C30_RdsOperationsFrame == [][RdsOperationsKeepTheOtherList]_vars

\* a summary that reports an idle instance found by analyze_rds_instances next to
\* an old snapshot found by a separate find_old_snapshots call, both still held
C30_Witness ==
    /\ RdsSummarised
    /\ rds_ret.value.idle_instances_count = 1
    /\ rds_ret.value.idle_instances[1].db_instance_id = DbInstanceIds[1]
    /\ rds_ret.value.old_snapshots_count = 1
    /\ rds_ret.value.old_snapshots[1].snapshot_id = SnapshotIds[1]
    /\ rds_scanner.idle_instances = rds_ret.value.idle_instances
    /\ rds_scanner.old_snapshots = rds_ret.value.old_snapshots

----------------------------------------------------------------------------
(* Properties of scanner construction *)

\* the configuration is one a correct caller would not pass
ConfigurationError(args) ==
    args.region \notin {"us-east-1"} \/ args.threshold_type \notin {"float", "int"}

ConstructedWith(ret) == ret.op = "__init__" /\ "args" \in DOMAIN ret

\* the EC2 scanner was built from a wrong configuration and its scan raised
Ec2ErrorSurfacesInAnalyze ==
    /\ ec2_ret.op = "analyze_ec2_instances"
    /\ ec2_ret.outcome = "raised"
    /\ ec2_scanner.region = "mars-east-1" \/ ec2_scanner.idle_threshold_type = "str"

\* the EBS scanner was built for a region that does not exist and its scan returned
\* an empty result after calling the provider
EbsErrorNeverSurfaces ==
    /\ ebs_ret.op = "analyze_ebs_volumes"
    /\ ebs_scanner.region = "mars-east-1"
    /\ ebs_ret.outcome = "returned"
    /\ ebs_ret.calls # <<>>
    /\ ebs_ret.value.total_potential_monthly_savings = 0

\* C22 as stated: a constructor called with a region that does not exist or with a
\* threshold of the wrong type fails, so that no scanner object exists afterwards,
\* and no scan of such a scanner ever calls the provider
C22_AsStated_ConfigurationErrorFailsConstruction ==
    /\ (ConstructedWith(ec2_ret) /\ ConfigurationError(ec2_ret.args))
          => (ec2_ret.outcome = "raised" /\ ~Constructed(ec2_scanner))
    /\ (ConstructedWith(ebs_ret) /\ ConfigurationError(ebs_ret.args))
          => (ebs_ret.outcome = "raised" /\ ~Constructed(ebs_scanner))
    /\ ~Ec2ErrorSurfacesInAnalyze
    /\ ~EbsErrorNeverSurfaces

----------------------------------------------------------------------------
(* Properties of concurrent price lookups *)

LookupThreads == {t \in DOMAIN threads : "volume_type" \in DOMAIN threads[t]}

KeyOf(t) == ebs_cache_key(threads[t].volume_type, threads[t].region)

\* the prices successful live lookups for the key have returned so far
FetchedFor(cache_key) ==
    {threads[t].fetched.val : t \in {u \in LookupThreads :
                                        KeyOf(u) = cache_key /\ ~threads[u].fetched.none}}

FallbackPrice(volume_type) ==
    IF volume_type \in DOMAIN DEFAULT_EBS_PRICES
    THEN DEFAULT_EBS_PRICES[volume_type] ELSE DEFAULT_EBS_PRICES["gp2"]

\* every entry is a price a successful live lookup returned for that key, and every
\* caller that is done holds such a price or the fall-back price
CacheIsSound ==
    /\ \A cache_key \in DOMAIN ebs_price_cache :
          ebs_price_cache[cache_key] \in FetchedFor(cache_key)
    /\ \A t \in LookupThreads :
          threads[t].pc = "done" =>
              /\ ~threads[t].result.none
              /\ threads[t].result.val
                    \in FetchedFor(KeyOf(t)) \cup {FallbackPrice(threads[t].volume_type)}

\* no entry is ever removed; an entry changes only when a caller that fetched a
\* price for that key stores it; a caller whose lookup failed never touches the cache
CacheStepIsSound ==
    /\ \A cache_key \in DOMAIN ebs_price_cache :
          /\ cache_key \in DOMAIN ebs_price_cache'
          /\ ebs_price_cache'[cache_key] # ebs_price_cache[cache_key] =>
                \E t \in LookupThreads :
                    /\ threads[t].pc = "write_cache" /\ threads'[t].pc = "resolve"
                    /\ KeyOf(t) = cache_key
                    /\ ebs_price_cache'[cache_key] = threads[t].fetched.val
    /\ \A t \in LookupThreads :
          (threads'[t] # threads[t] /\ threads[t].fetched.none /\ threads'[t].fetched.none)
              => ebs_price_cache' = ebs_price_cache

\* C23: under every interleaving of the steps of concurrent lookups on one pricing
\* client the cache holds, for each key, a price that a successful live lookup for
\* exactly that key returned; an entry is never removed and is overwritten only by
\* a caller storing the price it fetched for that key (the last writer wins); a
\* failed lookup changes nothing; every caller returns a price of a successful
\* lookup for its key or the fall-back price
C23_ConcurrentLookupsKeepCacheSound ==
    []CacheIsSound /\ [][CacheStepIsSound]_vars

\* two callers raced on the same key, each fetched a different price, both stored
\* it: the entry is the price of the last writer, and the first writer returned
\* its own price
C23_Witness ==
    \E t, u \in LookupThreads :
       /\ t # u /\ KeyOf(t) = KeyOf(u)
       /\ threads[t].pc = "done" /\ threads[u].pc = "done"
       /\ ~threads[t].fetched.none /\ ~threads[u].fetched.none
       /\ threads[t].fetched # threads[u].fetched
       /\ ebs_price_cache[KeyOf(t)] = threads[u].fetched.val
       /\ threads[t].result = threads[t].fetched

----------------------------------------------------------------------------
(* Properties of concurrent scans on one EC2Scanner *)

ScanThreads == {t \in DOMAIN threads : "appended" \in DOMAIN threads[t]}

Returned(t) == threads[t].pc = "done"

\* what one call on its own returns for the account
OwnScan == ec2_analyze(ec2_scanner, << >>, aws_ec2, TRUE, aws_faults).idle

\* a resource appears twice in the list
ReportedTwice(list) ==
    \E i, j \in 1..Len(list) : i < j /\ list[i].instance_id = list[j].instance_id

\* a call that never overlapped another returns the result of its own scan, which
\* is what it appended; whatever a call returns was appended by some call
ScansShareOneList ==
    \A t \in ScanThreads :
       Returned(t) =>
          /\ threads[t].alone =>
                /\ threads[t].result.val = threads[t].appended
                /\ threads[t].result.val = OwnScan
          /\ \A i \in 1..Len(threads[t].result.val) :
                \E u \in ScanThreads :
                   threads[t].result.val[i] \in Range(threads[u].appended)

\* C24: two calls of analyze_ec2_instances on one scanner share the list that
\* self.idle_instances names.  A call that runs on its own returns its own scan;
\* when two calls overlap, the list a call returns is the shared list as it is at
\* that moment, so it can hold findings the other call appended (the witness)
C24_ConcurrentScansShareResults == ScansShareOneList

\* the leak: a call returned more findings than it appended itself, and a resource
\* is reported twice in the list it returned
C24_Witness ==
    \E t \in ScanThreads :
       /\ Returned(t)
       /\ Len(threads[t].result.val) > Len(threads[t].appended)
       /\ ReportedTwice(threads[t].result.val)
       /\ threads[t].result.val # OwnScan
----------------------------------------------------------------------------
(* Properties of the cost of an EC2 idle finding *)

\* the position in the fleet of the instance a finding is about
FleetPosition(finding) ==
    CHOOSE k \in 1..Len(aws_ec2) : InstanceIds[k] = finding.instance_id

\* the hourly rate of the default table for an instance type
DefaultRate(instance_type) ==
    IF instance_type \in DOMAIN DEFAULT_EC2_PRICES
    THEN DEFAULT_EC2_PRICES[instance_type] ELSE DEFAULT_EC2_PRICES["t3.medium"]

\* the hourly rates the resolver can have answered for a finding of the last scan
ResolvedRates(finding) ==
    {DefaultRate(finding.instance_type)} \cup
    (IF ec2_ret.use_api THEN {PriceListEC2(finding.instance_type)} ELSE {})

\* the cost of the finding is some resolved rate times 730, rounded to cents
CostFollowsRate(finding) ==
    \E rate \in ResolvedRates(finding) :
        finding.estimated_monthly_cost = RoundHalfEven(rate * HOURS_PER_MONTH, 100)

\* samples that average 2 percent are reported as 2.0
TwoPercentIsReported(finding) ==
    LET series == aws_ec2[FleetPosition(finding)][2]
    IN  SumSeq(series) = 200 * Len(series) => finding.avg_cpu_percent = 200

\* the live lookup answered a zero price for the type of the finding
LivePriceIsZero(finding) ==
    ec2_ret.use_api /\ PriceListEC2(finding.instance_type) = 0

\* what the code guarantees: the cost is the rounded product, the average is
\* reported as it is, and the cost is positive unless the live price was zero
PricedFindingsFollowRate ==
    Ec2Returned =>
        \A i \in 1..Len(ec2_ret.value) :
            /\ CostFollowsRate(ec2_ret.value[i])
            /\ TwoPercentIsReported(ec2_ret.value[i])
            /\ (ec2_ret.value[i].estimated_monthly_cost > 0
                    \/ LivePriceIsZero(ec2_ret.value[i]))

\* C25 as stated: every idle finding of analyze_ec2_instances has a strictly
\* positive estimated_monthly_cost equal to the resolved hourly rate times 730, and
\* an instance whose samples average 2 percent is reported with avg_cpu_percent
\* 2.0, whether the rate came from the live lookup or from the default table
C25_AsStated_EveryFindingHasPositiveCost ==
    Ec2Returned =>
        \A i \in 1..Len(ec2_ret.value) :
            /\ ec2_ret.value[i].estimated_monthly_cost > 0
            /\ CostFollowsRate(ec2_ret.value[i])
            /\ TwoPercentIsReported(ec2_ret.value[i])

----------------------------------------------------------------------------
(* Properties of the end of a scan and of the calls it issues *)

\* no scan has issued a provider call a second time (a call is the API, the
\* resource and, for EBS prices, the cost sum)
NoCallIssuedTwice == \A t \in ThreadIds : ~threads[t].again

\* every call a scan has issued is a listing call or is about a listed resource
CallsAreAboutListedResources ==
    \A t \in ThreadIds :
        threads[t].called \subseteq
            EC2Sites(aws_ec2) \cup EC2PricingSites(aws_ec2)
            \cup RDSSites(aws_rds) \cup RDSPricingSites(aws_rds)
            \cup EBSSites(aws_ebs) \cup EBSPricingSites(aws_ebs)

\* every scan has returned or raised
ScansOver == \A t \in ThreadIds : threads[t].pc \in {"done", "raised"}

\* C26: for a finite listing every analyze operation comes to its end (it returns
\* or raises), also when a provider call keeps failing, and on the way it issues
\* no metrics query and no price lookup a second time for the same resource (and,
\* for prices, the same cost computation): a failed call is not retried
C26_ScansTerminateWithoutRetry ==
    /\ [](NoCallIssuedTwice /\ CallsAreAboutListedResources)
    /\ <>ScansOver

\* a scan of MaxResources instances that returned although the metrics call of its
\* first instance failed and still fails: it queried the first and the second
\* instance once each
C26_Witness ==
    /\ threads # NoThreads
    /\ threads[1].pc = "done"
    /\ Len(threads[1].instances) = MaxResources
    /\ FaultAt(aws_faults, EC2MetricSite(InstanceIds[1])) = ClientError
    /\ EC2MetricSite(InstanceIds[1]) \in threads[1].called
    /\ EC2MetricSite(InstanceIds[2]) \in threads[1].called

====
